---- MODULE Spec2Model ----
(***************************************************************************)
(* The Lighter exchange trader (trader/lighter_trader.go) as a state       *)
(* machine: the market-info cache, the order workflows and the external    *)
(* calls each invocation issues.  Every goroutine that calls the trader is *)
(* a process; every network call and every access to the shared cache is   *)
(* one step of it, because the trader takes no lock.                       *)
(***************************************************************************)
EXTENDS Integers, Sequences, FiniteSets, TLC

VARIABLES
    marketInfoCache,  \* LighterTrader.marketInfoCache: coin -> lighterOrderBook
    w,                \* per goroutine: the running call, its locals, its calls
    clock             \* the wall clock time.Now() reads, in ticks

vars == <<marketInfoCache, w, clock>>

(***************************************************************************)
(* Bounds and input sets.                                                  *)
(***************************************************************************)
Procs == {"g1", "g2"}
SeqProcs == {"g1"}

MaxResting == 1

\* The clock: ticks of a fraction of a millisecond, from midnight of StartDay
\* (a day number since 1970-01-01).
MaxClock == 3
TicksPerMs == 2
StartDay == 20000

Symbols == {"BTCUSDT", "ETHUSDT", "DOGEUSDT"}

\* A decimal number n / 10^d (the code's float64 arguments and prices).
Dec(n, d) == [n |-> n, d |-> d]
Zero == Dec(0, 0)

Quantities == {Zero, Dec(15, 1)}
Leverages == {10, 3}
\* Leverage arguments outside 1..10000, given to SetLeverage itself.
BadLeverages == {0, -3, 10001}
PositionSides == {"LONG", "SHORT", "long"}
StopPrices == {Dec(2900, 0)}

\* Quantities and prices handed to the encoders on their own.
CodecInputs ==
    {Dec(123456, 5), Dec(29, 2), Dec(3, 1), Dec(25, 1), Dec(3, 4),
     Dec(-2525, 1), Dec(500000, 0), Dec(1, -19)}

\* lighterOrderBook entries as /api/v1/orderBooks lists them.
Market(sym, id, sd, pd) ==
    [Symbol |-> sym, MarketID |-> id,
     SupportedSizeDecimals |-> sd, SupportedPriceDecimals |-> pd]

MarketIDs == {0, 1}

\* Order-book lists the exchange may answer with: both markets; BTC delisted
\* and both ETH precisions changed; nothing listed.
MarketLists ==
    { << Market("ETH", 0, 4, 2), Market("BTC", 1, 5, 1) >>,
      << Market("ETH", 0, 3, 1) >>,
      << >> }

\* The ways loadMarketInfo's request fails.
ReloadFailures == {"transport", "status", "parse", "code"}

\* A field of a JSON reply that is missing, empty or not a string: no number
\* is read from it.
Absent == ""

\* Account records of /api/v1/account: the positions of Accounts[0], their
\* numbers as the texts the exchange sends, in any form ParseFloat reads.
Position(sym, sign, position, value, pnl, imf) ==
    [Symbol |-> sym, Sign |-> sign, Position |-> position,
     AvgEntryPrice |-> "3000", PositionValue |-> value, UnrealizedPnl |-> pnl,
     LiquidationPrice |-> "1500.5", InitialMarginFraction |-> imf]

Pos(sym, sign, position) == Position(sym, sign, position, "6000", "0", "10")

AccountPositions ==
    { << >>,
      << Pos("BTC", 1, "2.5") >>,
      << Pos("BTC", -1, "-1.0") >>,
      << Pos("BTC", 1, "0"), Pos("ETH", 1, "2.0") >>,
      << Pos("ETH", 1, "2.0"), Pos("BTC", -1, "1.0"), Pos("BTC", 1, "2.5") >> }

\* The accounts of a reply that GetBalance and GetPositions read on their
\* own: none, or one with its balances and positions.
Account(available, collateral, positions) ==
    [AvailableBalance |-> available, Collateral |-> collateral,
     Positions |-> positions]

AccountReplies ==
    { << >>,
      << Account("1000", "1000", << >>) >>,
      << Account("500.25", "984.18",
                 << Position("BTC", 1, "2.5", "7500", "139.44", "10") >>) >>,
      << Account("500.25", "984.18",
                 << Position("BTC", 1, "2.5", "7500", "139.44", "10"),
                    Position("ETH", -1, "1.0", "3000.5", "-20.5", "5") >>) >>,
      << Account("0", "250",
                 << Position("ETH", 1, "0", "0", "0", "10"),
                    Position("BTC", -1, "-1.0", "60000", "12", "0") >>) >>,
      << Account("12.5", "abc",
                 << Position("ETH", 1, "-2", "6000", "1.5", "abc"),
                    Position("BTC", 1, "abc", "7", "x", "10"),
                    Position("DOGE", 0, "3", "0.3", "-0.1", "-4") >>) >>,
      << Account(Absent, "100",
                 << Position("BTC", 1, "0.3", "100", "0.1", "3") >>) >>,
      << Account("1e2", "0x1.8p1",
                 << Position("BTC", 1, "1e3", "2.5E3", "1_0", "1e1") >>) >> }

\* Order-book details: a mark price, or the best ask and bid.
PriceDetails ==
    { [mark |-> "3000", ask |-> Absent, bid |-> Absent],
      [mark |-> "2500.5", ask |-> Absent, bid |-> Absent],
      [mark |-> Absent, ask |-> "3001", bid |-> "2999"],
      [mark |-> Absent, ask |-> "3001", bid |-> "0"],
      [mark |-> Absent, ask |-> Absent, bid |-> Absent] }

\* More of them, for the price read on its own.
QueriedDetails ==
    PriceDetails \cup
    { [mark |-> "0", ask |-> "3001", bid |-> "2999"],
      [mark |-> "-2.5", ask |-> Absent, bid |-> Absent],
      [mark |-> "abc", ask |-> "3000.5", bid |-> "2999.6"],
      [mark |-> Absent, ask |-> "-1", bid |-> "2999"],
      [mark |-> Absent, ask |-> "0.3", bid |-> "0.1"],
      [mark |-> "1e3", ask |-> Absent, bid |-> Absent],
      [mark |-> "Inf", ask |-> Absent, bid |-> Absent],
      [mark |-> "1e400", ask |-> "2.5E-1", bid |-> "0x1p-2"] }

\* The details the exchange answers an operation with.
Details(name) ==
    IF name = "GetMarketPrice" THEN QueriedDetails ELSE PriceDetails

(***************************************************************************)
(* Pure helpers.                                                           *)
(***************************************************************************)
\* convertSymbolToLighterCoin: drop a trailing "USDT".
convertSymbolToLighterCoin(symbol) ==
    IF Len(symbol) > 4 /\ SubSeq(symbol, Len(symbol) - 3, Len(symbol)) = "USDT"
    THEN SubSeq(symbol, 1, Len(symbol) - 4)
    ELSE symbol

EmptyCache == << >>

\* t.marketInfoCache[market.Symbol] = market
StoreMarket(cache, market) ==
    [c \in DOMAIN cache \cup {market.Symbol} |->
        IF c = market.Symbol THEN market ELSE cache[c]]

RECURSIVE StoreAll(_, _)
\* The store loop of loadMarketInfo run to its end.
StoreAll(cache, list) ==
    IF list = << >> THEN cache
    ELSE StoreAll(StoreMarket(cache, Head(list)), Tail(list))


(***************************************************************************)
(* float64 arithmetic.  The mantissa of a float64 has 53 bits, more than   *)
(* an integer of the checker holds, so whole numbers are written as        *)
(* sequences of 15-bit limbs, the lowest first, with no zero limb on top.  *)
(***************************************************************************)
Limb == 32768

RECURSIVE BigOfInt(_)
BigOfInt(n) == IF n = 0 THEN << >> ELSE <<n % Limb>> \o BigOfInt(n \div Limb)

RECURSIVE IntOfBig(_)
IntOfBig(a) == IF a = << >> THEN 0 ELSE a[1] + Limb * IntOfBig(Tail(a))

\* The greatest number of a set of numbers that is not empty.
Greatest(set) == CHOOSE i \in set : \A j \in set : j <= i

\* a without its zero limbs on top
BigTrim(a) ==
    IF \A i \in 1..Len(a) : a[i] = 0 THEN << >>
    ELSE SubSeq(a, 1, Greatest({i \in 1..Len(a) : a[i] # 0}))

\* The operators below that walk the limbs of a number take its limbs lo..hi
\* in two halves, the second half from the carry or remainder the first one
\* left, so that a long number is walked in few nested steps.  A division
\* walks from the top: its upper half comes first, and where that leaves no
\* remainder above limbs that are all 0 the lower half is 0 too.

\* The limbs of two halves, the lower one first, with the carry out of the
\* upper one.
Joined(low, high) == [q |-> low.q \o high.q, c |-> high.c]

\* The limb and the carry that the number t makes.
Carried(t) == [q |-> <<t % Limb>>, c |-> t \div Limb]

RECURSIVE MulLimbs(_, _, _, _, _)
RECURSIVE MulUpper(_, _, _, _, _)
\* The limbs lo..hi of a * s + carry and the carry out of them.
MulLimbs(a, s, carry, lo, hi) ==
    IF lo > hi THEN [q |-> << >>, c |-> carry]
    ELSE IF lo = hi THEN Carried(a[lo] * s + carry)
    ELSE MulUpper(a, s, MulLimbs(a, s, carry, lo, (lo + hi) \div 2),
                  (lo + hi) \div 2 + 1, hi)

\* The limbs lo..hi after the limbs below them, which are in low.
MulUpper(a, s, low, lo, hi) == Joined(low, MulLimbs(a, s, low.c, lo, hi))

\* The limbs of a walk and its last carry on top of them.
WithCarry(r) == r.q \o BigOfInt(r.c)

\* a * s + carry, for s below Limb
BigMulSmall(a, s, carry) == WithCarry(MulLimbs(a, s, carry, 1, Len(a)))

\* The limb of a at i, 0 above its top.
LimbAt(a, i) == IF i <= Len(a) THEN a[i] ELSE 0

RECURSIVE AddLimbs(_, _, _, _, _)
RECURSIVE AddUpper(_, _, _, _, _)
AddLimbs(a, b, carry, lo, hi) ==
    IF lo > hi THEN [q |-> << >>, c |-> carry]
    ELSE IF lo = hi THEN Carried(LimbAt(a, lo) + LimbAt(b, lo) + carry)
    ELSE AddUpper(a, b, AddLimbs(a, b, carry, lo, (lo + hi) \div 2),
                  (lo + hi) \div 2 + 1, hi)

AddUpper(a, b, low, lo, hi) == Joined(low, AddLimbs(a, b, low.c, lo, hi))

\* a + b + carry
BigAdd(a, b, carry) ==
    WithCarry(AddLimbs(a, b, carry, 1,
                       IF Len(a) > Len(b) THEN Len(a) ELSE Len(b)))

\* a * Limb^k
Raised(a, k) == IF a = << >> THEN a ELSE [i \in 1..k |-> 0] \o a

RECURSIVE MulRows(_, _, _, _)
\* a times the limbs lo..hi of b
MulRows(a, b, lo, hi) ==
    IF lo = hi THEN BigTrim(BigMulSmall(a, b[lo], 0))
    ELSE BigTrim(BigAdd(MulRows(a, b, lo, (lo + hi) \div 2),
                        Raised(MulRows(a, b, (lo + hi) \div 2 + 1, hi),
                               (lo + hi) \div 2 + 1 - lo),
                        0))

BigMul(a, b) ==
    IF a = << >> \/ b = << >> THEN << >> ELSE MulRows(a, b, 1, Len(b))

\* The limbs of a from lo to hi are all 0.
ZeroLimbs(a, lo, hi) == \A i \in lo..hi : a[i] = 0

\* The quotient limbs of two halves, the lower one first, with the remainder
\* the lower one left.
Divided(low, high) == [q |-> low.q \o high.q, r |-> low.r]

\* The quotient limbs of an upper half above n limbs that are 0.
DividedOut(high, n) == [q |-> [i \in 1..n |-> 0] \o high.q, r |-> high.r]

\* The quotient limb and the remainder that the number cur leaves by s.
DividedBy(cur, s) == [q |-> <<cur \div s>>, r |-> cur % s]

RECURSIVE DivLimbs(_, _, _, _, _)
RECURSIVE DivLower(_, _, _, _, _)
\* The limbs lo..hi of the quotient by s, from the top one down, and the
\* remainder they leave.
DivLimbs(a, s, rem, lo, hi) ==
    IF lo > hi THEN [q |-> << >>, r |-> rem]
    ELSE IF lo = hi THEN DividedBy(rem * Limb + a[lo], s)
    ELSE DivLower(a, s, DivLimbs(a, s, rem, (lo + hi) \div 2 + 1, hi),
                  lo, (lo + hi) \div 2)

\* The limbs lo..hi after the limbs above them, which are in high.
DivLower(a, s, high, lo, hi) ==
    IF high.r = 0 /\ ZeroLimbs(a, lo, hi) THEN DividedOut(high, hi + 1 - lo)
    ELSE Divided(DivLimbs(a, s, high.r, lo, hi), high)

\* The quotient and the remainder of (rem * Limb^Len(a) + a) by s, for s
\* below Limb and rem below s; the quotient may carry zero limbs on top.
BigDivSmall(a, s, rem) == DivLimbs(a, s, rem, 1, Len(a))

RECURSIVE Pow2(_)
Pow2(k) == IF k = 0 THEN 1 ELSE 2 * Pow2(k - 1)

RECURSIVE BitsOf(_)
\* The number of bits of a limb.
BitsOf(n) == IF n = 0 THEN 0 ELSE 1 + BitsOf(n \div 2)

BitLen(a) == IF a = << >> THEN 0 ELSE 15 * (Len(a) - 1) + BitsOf(a[Len(a)])

\* a * 2^k
BigShiftLeft(a, k) ==
    Raised(BigTrim(BigMulSmall(a, Pow2(k % 15), 0)), k \div 15)

\* The quotient of a division with whether it, or the limbs left out of it,
\* lost a bit.
Shifted(d, low) ==
    [q |-> BigTrim(d.q), lost |-> d.r # 0 \/ \E i \in 1..Len(low) : low[i] # 0]

\* a div 2^k, and whether a bit was lost
BigShiftRight(a, k) ==
    Shifted(BigDivSmall(SubSeq(a, k \div 15 + 1, Len(a)), Pow2(k % 15), 0),
            SubSeq(a, 1, IF k \div 15 < Len(a) THEN k \div 15 ELSE Len(a)))

\* -1 or 1 as a is below or above b at the limb where they differ.
CmpAt(a, b, top) == IF a[top] < b[top] THEN -1 ELSE 1

\* -1, 0 or 1 as a is below, equal to or above b, neither with a zero limb
\* on top
BigCmp(a, b) ==
    IF Len(a) # Len(b) THEN (IF Len(a) < Len(b) THEN -1 ELSE 1)
    ELSE IF a = b THEN 0
    ELSE CmpAt(a, b, Greatest({i \in 1..Len(a) : a[i] # b[i]}))

\* The limb and the borrow that the difference t makes.
Borrowed(t) ==
    [q |-> <<IF t < 0 THEN t + Limb ELSE t>>, c |-> IF t < 0 THEN 1 ELSE 0]

RECURSIVE SubLimbs(_, _, _, _, _)
RECURSIVE SubUpper(_, _, _, _, _)
SubLimbs(a, b, borrow, lo, hi) ==
    IF lo > hi THEN [q |-> << >>, c |-> borrow]
    ELSE IF lo = hi THEN Borrowed(a[lo] - LimbAt(b, lo) - borrow)
    ELSE SubUpper(a, b, SubLimbs(a, b, borrow, lo, (lo + hi) \div 2),
                  (lo + hi) \div 2 + 1, hi)

SubUpper(a, b, low, lo, hi) == Joined(low, SubLimbs(a, b, low.c, lo, hi))

\* a - b, for a not below b
BigSub(a, b) == BigTrim(SubLimbs(a, b, 0, 1, Len(a)).q)

\* d is the quotient limb of r2 by b: b * d is not above r2, b * (d + 1) is.
QuotientLimb(b, r2, d) ==
    /\ BigCmp(BigTrim(BigMulSmall(b, d, 0)), r2) <= 0
    /\ BigCmp(BigTrim(BigMulSmall(b, d + 1, 0)), r2) > 0

\* The quotient limb of r2 by b, at most 2 below qhat.
LimbFrom(b, r2, qhat) ==
    CHOOSE d \in (IF qhat < 2 THEN 0 ELSE qhat - 2)..qhat : QuotientLimb(b, r2, d)

\* The estimate of the quotient limb of r2 by b from their top limbs.
Estimate(b, r2, n) ==
    ((IF Len(r2) > n THEN r2[n + 1] ELSE 0) * Limb
        + (IF Len(r2) >= n THEN r2[n] ELSE 0)) \div b[n]

\* The quotient limb digit of r2 by b and the remainder it leaves.
LimbTaken(b, r2, digit) ==
    [q |-> <<digit>>, r |-> BigSub(r2, BigTrim(BigMulSmall(b, digit, 0)))]

\* The quotient limb of r2 by b from its estimate est.
LimbNear(b, r2, est) ==
    LimbTaken(b, r2, LimbFrom(b, r2, IF est < Limb THEN est ELSE Limb - 1))

\* One step of the long division: r2 by b, for b with its top bit set in its
\* top limb and r2 below b * Limb.
DivStep(b, r2) == LimbNear(b, r2, Estimate(b, r2, Len(b)))

RECURSIVE BigDivLimbs(_, _, _, _, _)
RECURSIVE BigDivLower(_, _, _, _, _)
\* Long division by b of the limbs lo..hi of a, from the top one down,
\* starting from the remainder rem: the quotient limbs and the remainder.
BigDivLimbs(a, b, rem, lo, hi) ==
    IF lo > hi THEN [q |-> << >>, r |-> rem]
    ELSE IF lo = hi THEN DivStep(b, BigTrim(<<a[lo]>> \o rem))
    ELSE BigDivLower(a, b, BigDivLimbs(a, b, rem, (lo + hi) \div 2 + 1, hi),
                     lo, (lo + hi) \div 2)

BigDivLower(a, b, high, lo, hi) ==
    IF high.r = << >> /\ ZeroLimbs(a, lo, hi) THEN DividedOut(high, hi + 1 - lo)
    ELSE Divided(BigDivLimbs(a, b, high.r, lo, hi), high)

\* The quotient and the remainder of a division of numbers both shifted
\* left.
Unshifted(d, shift) == [q |-> BigTrim(d.q), r |-> BigShiftRight(d.r, shift).q]

\* a by b, both shifted left already so that b has its top bit set.
DivShifted(a, b, shift) == Unshifted(BigDivLimbs(a, b, << >>, 1, Len(a)), shift)

\* The quotient and the remainder of a by b, b not 0.
BigDivMod(a, b) ==
    DivShifted(BigShiftLeft(a, 15 - BitsOf(b[Len(b)])),
               BigShiftLeft(b, 15 - BitsOf(b[Len(b)])),
               15 - BitsOf(b[Len(b)]))

\* a * a
Squared(a) == BigMul(a, a)

RECURSIVE Pow10Big(_)
\* 10^k
Pow10Big(k) ==
    IF k = 0 THEN <<1>>
    ELSE IF k % 2 = 1 THEN BigTrim(BigMulSmall(Pow10Big(k - 1), 10, 0))
    ELSE Squared(Pow10Big(k \div 2))

\* A float64.  A finite one is sign * m * 2^e with m below 2^53 (or equal to
\* it) and e from -1074 up; a zero has the empty m and keeps its sign.  The
\* infinities and NaN, which have no m and e, are written with m = 1 and an
\* e no finite float64 has: 2000 for an infinity, 3000 for NaN.
Flt(s, m, e) == [s |-> s, m |-> m, e |-> e]

FZero == Flt(1, << >>, 0)
FZeroOf(s) == Flt(s, << >>, 0)
FInf(s) == Flt(s, <<1>>, 2000)
FNaN == Flt(1, <<1>>, 3000)
IsInf(f) == f.e = 2000
IsNaN(f) == f.e = 3000

\* f == 0, f > 0, f < 0 as Go compares: NaN is none of them, -0 is 0.
FIsZero(f) == f.m = << >>
FPositive(f) == f.m # << >> /\ f.s = 1 /\ ~IsNaN(f)
FNegative(f) == f.m # << >> /\ f.s = -1 /\ ~IsNaN(f)

\* -f
FNeg(f) == IF IsNaN(f) THEN f ELSE Flt(-f.s, f.m, f.e)

\* absFloat64: if x < 0 { return -x }; return x
absFloat64(f) == IF FNegative(f) THEN FNeg(f) ELSE f

\* The float64 sign * m * 2^e for m of 53 bits at most: 0, an infinity from
\* 2^1024 on.
Ranged(s, m, e) ==
    IF m = << >> THEN FZeroOf(s)
    ELSE IF BitLen(m) + e > 1024 THEN FInf(s)
    ELSE Flt(s, m, e)

\* m, or m + 1 when the bits dropped below it round up: the first of them
\* is set (half) and either another one is (rest) or m is odd.
RoundedUp(m, half, rest) ==
    IF half /\ (rest \/ (m # << >> /\ m[1] % 2 = 1))
    THEN BigTrim(BigAdd(m, <<1>>, 0))
    ELSE m

\* keep holds the bits kept and the first bit dropped.
RoundOff(s, keep, e, sticky) ==
    Ranged(s, RoundedUp(BigShiftRight(keep.q, 1).q,
                        keep.q # << >> /\ keep.q[1] % 2 = 1,
                        keep.lost \/ sticky),
           e)

\* The number of low bits of a that a float64 of exponent e does not hold:
\* those beyond 53 bits, and those below 2^-1074.
Dropped(a, e) ==
    IF BitLen(a) - 53 > (-1074) - e
    THEN (IF BitLen(a) - 53 > 0 THEN BitLen(a) - 53 ELSE 0)
    ELSE (IF (-1074) - e > 0 THEN (-1074) - e ELSE 0)

\* sign * a * 2^e with its drop low bits rounded off.
RoundAt(s, a, e, sticky, drop) ==
    IF drop = 0 THEN Ranged(s, a, e)
    ELSE RoundOff(s, BigShiftRight(a, drop - 1), e + drop, sticky)

\* The float64 nearest to sign * a * 2^e, or to a value above it by less than
\* one unit of a when sticky (a has 55 bits or more then): round to nearest,
\* ties to even, to 53 bits or to the fewer bits a subnormal has; a value
\* that rounds to 2^1024 or more is an infinity.
RoundFlt(s, a, e, sticky) == RoundAt(s, a, e, sticky, Dropped(a, e))

RECURSIVE TrailingZeros(_)
\* The number of zero bits at the low end of a limb that is not 0.
TrailingZeros(n) == IF n % 2 = 1 THEN 0 ELSE 1 + TrailingZeros(n \div 2)

RECURSIVE Compact(_)
\* The same float64 written with an odd m.
Compact(f) ==
    IF f.m = << >> \/ IsInf(f) \/ IsNaN(f) THEN f
    ELSE IF f.m[1] = 0 THEN Compact(Flt(f.s, Tail(f.m), f.e + 15))
    ELSE Flt(f.s, BigShiftRight(f.m, TrailingZeros(f.m[1])).q,
             f.e + TrailingZeros(f.m[1]))

\* The float64 nearest to sign * d.q * 2^e, d the quotient and the remainder
\* of a division.
RoundQuotient(s, d, e) == Compact(RoundFlt(s, d.q, e, d.r # << >>))

\* The float64 nearest to sign * a * 10^k, as strconv rounds a decimal: above
\* 10^310 it is an infinity and below 2^-1076 a zero whatever the digits
\* (10^-k is above 2^(3.3219 * -k)).
DecimalToFloat(s, a, k) ==
    IF a = << >> THEN FZeroOf(s)
    ELSE IF k > 310 THEN FInf(s)
    ELSE IF k < 0 /\ BitLen(a) < 190000
               /\ (-k > 60000 \/ 33219 * (-k) >= 10000 * (BitLen(a) + 1077))
    THEN FZeroOf(s)
    ELSE RoundQuotient(s,
             IF k >= 0 THEN [q |-> BigMul(a, Pow10Big(k)), r |-> << >>]
             ELSE BigDivMod(BigShiftLeft(a, 60 + 4 * (-k)), Pow10Big(-k)),
             IF k >= 0 THEN 0 ELSE -(60 + 4 * (-k)))

\* The float64 a decimal literal denotes: n / 10^d rounded to nearest.
F64(x) ==
    DecimalToFloat(IF x.n < 0 THEN -1 ELSE 1,
                   BigOfInt(IF x.n < 0 THEN -x.n ELSE x.n), -x.d)

\* a * b in float64
FMul(a, b) ==
    IF IsNaN(a) \/ IsNaN(b) THEN FNaN
    ELSE IF IsInf(a) \/ IsInf(b)
         THEN (IF FIsZero(a) \/ FIsZero(b) THEN FNaN ELSE FInf(a.s * b.s))
    ELSE Compact(RoundFlt(a.s * b.s, BigMul(a.m, b.m), a.e + b.e, FALSE))

\* sx * x * 2^e + sy * y * 2^e, c telling x below, equal to or above y
AddAt(sx, x, sy, y, e, c) ==
    IF sx = sy THEN Compact(Flt(sx, BigTrim(BigAdd(x, y, 0)), e))
    ELSE IF c = 0 THEN FZero
    ELSE IF c > 0 THEN Compact(Flt(sx, BigSub(x, y), e))
    ELSE Compact(Flt(sy, BigSub(y, x), e))

\* sx * x * 2^e + sy * y * 2^e
AddWhole(sx, x, sy, y, e) == AddAt(sx, x, sy, y, e, BigCmp(x, y))

\* a + b as a real number, for finite a and b that are not 0: sign * m * 2^e
\* with m of any length
RealAdd(a, b) ==
    AddWhole(a.s, BigShiftLeft(a.m, IF a.e < b.e THEN 0 ELSE a.e - b.e),
             b.s, BigShiftLeft(b.m, IF a.e < b.e THEN b.e - a.e ELSE 0),
             IF a.e < b.e THEN a.e ELSE b.e)

\* The float64 nearest to a real number.
Nearest(sum) == Compact(RoundFlt(sum.s, sum.m, sum.e, FALSE))

\* a + b in float64
FAdd(a, b) ==
    IF IsNaN(a) \/ IsNaN(b) THEN FNaN
    ELSE IF IsInf(a) THEN (IF IsInf(b) /\ a.s # b.s THEN FNaN ELSE a)
    ELSE IF IsInf(b) THEN b
    ELSE IF FIsZero(a) /\ FIsZero(b) THEN FZeroOf(IF a.s = b.s THEN a.s ELSE 1)
    ELSE IF FIsZero(a) THEN b
    ELSE IF FIsZero(b) THEN a
    ELSE Nearest(RealAdd(a, b))

\* a - b in float64
FSub(a, b) == FAdd(a, FNeg(b))

\* a / b for finite a and b that are not 0, a shifted left by k bits so that
\* the quotient has 55 bits or more.
DivAt(a, b, k) ==
    RoundQuotient(a.s * b.s, BigDivMod(BigShiftLeft(a.m, k), b.m),
                  a.e - k - b.e)

\* a / b in float64
FDiv(a, b) ==
    IF IsNaN(a) \/ IsNaN(b) THEN FNaN
    ELSE IF IsInf(a) THEN (IF IsInf(b) THEN FNaN ELSE FInf(a.s * b.s))
    ELSE IF IsInf(b) THEN FZeroOf(a.s * b.s)
    ELSE IF FIsZero(b) THEN (IF FIsZero(a) THEN FNaN ELSE FInf(a.s * b.s))
    ELSE IF FIsZero(a) THEN FZeroOf(a.s * b.s)
    ELSE DivAt(a, b, IF 55 + BitLen(b.m) - BitLen(a.m) > 0
                     THEN 55 + BitLen(b.m) - BitLen(a.m) ELSE 0)

\* The character of a text at i, "" past its end.
CharAt(text, i) == IF i >= 1 /\ i <= Len(text) THEN SubSeq(text, i, i) ELSE ""

\* The place of a character in a text of distinct characters, 0 when it is
\* not in it.
PlaceIn(c, text) ==
    IF \E k \in 1..Len(text) : SubSeq(text, k, k) = c
    THEN CHOOSE k \in 1..Len(text) : SubSeq(text, k, k) = c
    ELSE 0

\* The lower-case letter at the place of an upper-case one, any other
\* character as it is.
LowerAt(c, place) ==
    IF place = 0 THEN c ELSE CharAt("abcdefghijklmnopqrstuvwxyz", place)

\* An ASCII letter in lower case, any other character as it is.
ToLower(c) == LowerAt(c, PlaceIn(c, "ABCDEFGHIJKLMNOPQRSTUVWXYZ"))

\* The value of a decimal or hexadecimal digit, -1 for any other character.
HexDigit(c) == PlaceIn(ToLower(c), "0123456789abcdef") - 1

\* The digit a character stands for, -1 when it is no digit.
Digit(c) == PlaceIn(c, "0123456789") - 1

RECURSIVE commonPrefixLenIgnoreCase(_, _, _)
\* The number of characters from the i-th on that s shares with prefix, the
\* case of s ignored.
commonPrefixLenIgnoreCase(s, prefix, i) ==
    IF i > Len(s) \/ i > Len(prefix) \/ ToLower(CharAt(s, i)) # CharAt(prefix, i)
    THEN i - 1
    ELSE commonPrefixLenIgnoreCase(s, prefix, i + 1)

\* The end of special for a text that shares n characters with "infinity"
\* after signs sign characters: of less than the whole word only "inf" is
\* read.
InfinityRead(sign, signs, n) ==
    IF n >= 3
    THEN [ok |-> TRUE, value |-> FInf(sign),
          n |-> signs + (IF n = 8 THEN 8 ELSE 3)]
    ELSE [ok |-> FALSE, value |-> FZero, n |-> 0]

\* strconv's special: an optional sign and "inf" or "infinity", or "nan", in
\* any case; n is the number of characters read.
special(s) ==
    IF CharAt(s, 1) \in {"+", "-"}
    THEN InfinityRead(IF CharAt(s, 1) = "-" THEN -1 ELSE 1, 1,
             commonPrefixLenIgnoreCase(SubSeq(s, 2, Len(s)), "infinity", 1))
    ELSE IF ToLower(CharAt(s, 1)) = "i"
    THEN InfinityRead(1, 0, commonPrefixLenIgnoreCase(s, "infinity", 1))
    ELSE IF ToLower(CharAt(s, 1)) = "n"
            /\ commonPrefixLenIgnoreCase(s, "nan", 1) = 3
    THEN [ok |-> TRUE, value |-> FNaN, n |-> 3]
    ELSE [ok |-> FALSE, value |-> FZero, n |-> 0]

\* One turn of strconv's underscoreOK, at the character c.
UnderscoreStep(c, hex, saw) ==
    IF Digit(c) >= 0 \/ (hex /\ HexDigit(c) >= 10) THEN "0"
    ELSE IF c = "_" THEN (IF saw = "0" THEN "_" ELSE "bad")
    ELSE IF saw = "_" THEN "bad"
    ELSE "!"

RECURSIVE underscoreOK(_, _, _, _, _)
\* strconv's underscoreOK over the characters lo..hi, taken in two halves:
\* an underscore stands only between digits or between the base prefix and
\* a digit.  saw is "0" after a digit or the prefix, "_" after an
\* underscore, "!" after anything else, "^" at the start and "bad" once an
\* underscore was found out of place.
underscoreOK(s, hex, saw, lo, hi) ==
    IF lo > hi \/ saw = "bad" THEN saw
    ELSE IF lo = hi THEN UnderscoreStep(CharAt(s, lo), hex, saw)
    ELSE underscoreOK(s, hex, underscoreOK(s, hex, saw, lo, (lo + hi) \div 2),
                      (lo + hi) \div 2 + 1, hi)

\* underscoreOK of a text without its sign: the base prefix is skipped.
Unsigned(s) ==
    IF Len(s) >= 2 /\ CharAt(s, 1) = "0" /\ ToLower(CharAt(s, 2)) \in {"b", "o", "x"}
    THEN underscoreOK(s, ToLower(CharAt(s, 2)) = "x", "0", 3, Len(s))
    ELSE underscoreOK(s, FALSE, "^", 1, Len(s))

\* underscoreOK of a whole text.
UnderscoresOK(text) ==
    Unsigned(IF CharAt(text, 1) \in {"+", "-"} THEN SubSeq(text, 2, Len(text))
             ELSE text) \notin {"_", "bad"}

\* The digit v read into the mantissa.
DigitRead(st, base, v) ==
    [st EXCEPT !.i = @ + 1, !.sawdigits = TRUE, !.nd = @ + 1,
               !.mant = BigTrim(BigAdd(BigMulSmall(@, base, 0), BigOfInt(v), 0))]

\* One turn of the digits loop of strconv's readFloat, at the character c
\* of the digit value v: mant the digits read as a whole number, nd their
\* count without the leading zeros, dp the place of the point; done when the
\* loop is left.
MantissaStep(st, base, c, v) ==
    IF c = "_" THEN [st EXCEPT !.i = @ + 1, !.underscores = TRUE]
    ELSE IF c = "."
    THEN (IF st.sawdot THEN [st EXCEPT !.done = TRUE]
          ELSE [st EXCEPT !.i = @ + 1, !.sawdot = TRUE, !.dp = st.nd])
    ELSE IF v = 0 /\ st.nd = 0
    THEN [st EXCEPT !.i = @ + 1, !.sawdigits = TRUE, !.dp = @ - 1]
    ELSE IF v \in 0..9 \/ (base = 16 /\ v >= 10) THEN DigitRead(st, base, v)
    ELSE [st EXCEPT !.done = TRUE]

RECURSIVE ReadMantissa(_, _, _, _, _)
\* The digits loop over the characters lo..hi, taken in two halves.
ReadMantissa(s, base, st, lo, hi) ==
    IF lo > hi \/ st.done THEN st
    ELSE IF lo = hi
    THEN MantissaStep(st, base, CharAt(s, lo), HexDigit(CharAt(s, lo)))
    ELSE ReadMantissa(s, base, ReadMantissa(s, base, st, lo, (lo + hi) \div 2),
                      (lo + hi) \div 2 + 1, hi)

\* One turn of the exponent loop, at the character c: no digit is added once
\* the exponent has reached 10000.
ExponentStep(st, c) ==
    IF c = "_" THEN [st EXCEPT !.i = @ + 1, !.underscores = TRUE]
    ELSE IF Digit(c) >= 0
    THEN [st EXCEPT !.i = @ + 1,
                    !.e = IF @ < 10000 THEN @ * 10 + Digit(c) ELSE @]
    ELSE [st EXCEPT !.done = TRUE]

RECURSIVE ReadExponent(_, _, _, _)
\* The exponent loop over the characters lo..hi, taken in two halves.
ReadExponent(s, st, lo, hi) ==
    IF lo > hi \/ st.done THEN st
    ELSE IF lo = hi THEN ExponentStep(st, CharAt(s, lo))
    ELSE ReadExponent(s, ReadExponent(s, st, lo, (lo + hi) \div 2),
                      (lo + hi) \div 2 + 1, hi)

\* No number starts the text.
NoFloat == [ok |-> FALSE, neg |-> FALSE, hex |-> FALSE, mant |-> << >>,
            exp |-> 0, n |-> 0]

\* The end of readFloat: the number read ends before the character last,
\* with the point at dp (in bits for a hexadecimal text); underscores are
\* checked over what was read.
NumberRead(s, hex, m, dp, last, underscores) ==
    IF underscores /\ ~UnderscoresOK(SubSeq(s, 1, last - 1)) THEN NoFloat
    ELSE [ok |-> TRUE, neg |-> CharAt(s, 1) = "-", hex |-> hex, mant |-> m.mant,
          exp |-> IF m.mant = << >> THEN 0
                  ELSE dp - m.nd * (IF hex THEN 4 ELSE 1),
          n |-> last - 1]

\* The exponent of readFloat, x the end of its loop: it moves the point.
ExponentRead(s, hex, m, dp, esign, x) ==
    NumberRead(s, hex, m, dp + x.e * esign, x.i, x.underscores)

\* What follows the mantissa in readFloat: an exponent, marked by e (by p in
\* a hexadecimal text, which must have one), with a sign or none and then a
\* digit at the character first.
AfterMantissa(s, hex, m, dp, first) ==
    IF ~m.sawdigits THEN NoFloat
    ELSE IF ToLower(CharAt(s, m.i)) = (IF hex THEN "p" ELSE "e")
    THEN (IF Digit(CharAt(s, first)) < 0 THEN NoFloat
          ELSE ExponentRead(s, hex, m, dp,
                            IF CharAt(s, m.i + 1) = "-" THEN -1 ELSE 1,
                            ReadExponent(s, [i |-> first, e |-> 0,
                                             underscores |-> m.underscores,
                                             done |-> FALSE],
                                         first, Len(s))))
    ELSE IF hex THEN NoFloat
    ELSE NumberRead(s, hex, m, dp, m.i, m.underscores)

\* The mantissa of readFloat read, m the end of its digits loop.
MantissaRead(s, hex, m) ==
    AfterMantissa(s, hex, m,
                  (IF m.sawdot THEN m.dp ELSE m.nd) * (IF hex THEN 4 ELSE 1),
                  IF CharAt(s, m.i + 1) \in {"+", "-"} THEN m.i + 2 ELSE m.i + 1)

\* readFloat from the character start on, after the sign: "0x" before one
\* character or more makes the text hexadecimal.
ReadFrom(s, start, hex) ==
    MantissaRead(s, hex,
        ReadMantissa(s, IF hex THEN 16 ELSE 10,
            [i |-> IF hex THEN start + 2 ELSE start, mant |-> << >>, nd |-> 0,
             dp |-> 0, sawdot |-> FALSE, sawdigits |-> FALSE,
             underscores |-> FALSE, done |-> FALSE],
            IF hex THEN start + 2 ELSE start, Len(s)))

\* The text has the hexadecimal prefix at start and a character after it.
HexAt(s, start) ==
    start + 2 <= Len(s) /\ CharAt(s, start) = "0"
        /\ ToLower(CharAt(s, start + 1)) = "x"

\* strconv's readFloat: the sign, the mantissa and the exponent of 10 (of 2
\* for a hexadecimal text) the text starts with, n the number of characters
\* read; ok is false when no number starts the text.
readFloat(s) ==
    IF CharAt(s, 1) \in {"+", "-"} THEN ReadFrom(s, 2, HexAt(s, 2))
    ELSE ReadFrom(s, 1, HexAt(s, 1))

\* A float64 as ParseFloat returns it: an infinity is out of range.
InRange(value) == [err |-> IsInf(value), value |-> value]

\* The float64 of what readFloat read.
FloatRead(r) ==
    IF r.hex
    THEN InRange(Compact(RoundFlt(IF r.neg THEN -1 ELSE 1, r.mant, r.exp, FALSE)))
    ELSE InRange(DecimalToFloat(IF r.neg THEN -1 ELSE 1, r.mant, r.exp))

\* ParseFloat from what special and readFloat read of the text.
Parsed(text, sp, r) ==
    IF sp.ok
    THEN (IF sp.n = Len(text) THEN [err |-> FALSE, value |-> sp.value]
          ELSE [err |-> TRUE, value |-> FZero])
    ELSE IF ~r.ok \/ r.n # Len(text) THEN [err |-> TRUE, value |-> FZero]
    ELSE FloatRead(r)

\* strconv.ParseFloat(text, 64): the float64 nearest to the number the whole
\* text denotes; 0 and an error for a text that is no number, the infinity
\* and an error for a number beyond the float64 range.
ParseFloat(text) == Parsed(text, special(text), readFloat(text))

\* The four decimal digits of a number below 10000.
Pad4(n) == SubSeq("000", 1, 4 - Len(ToString(n))) \o ToString(n)

RECURSIVE Digits(_)
RECURSIVE DigitsOf(_)
\* The decimal digits of a whole number that is not 0, from its quotient and
\* remainder by 10000.
DigitsOf(t) ==
    IF \A i \in 1..Len(t.q) : t.q[i] = 0 THEN ToString(t.r)
    ELSE Digits(BigTrim(t.q)) \o Pad4(t.r)

Digits(a) == DigitsOf(BigDivSmall(a, 10000, 0))

\* A 64-bit integer of the program is written as its decimal text, an
\* integer of the checker having 32 bits only.
IntText(s, a) ==
    IF a = << >> THEN "0" ELSE (IF s < 0 THEN "-" ELSE "") \o Digits(a)

\* The text of an integer of the checker.
TextOf(n) == IF n < 0 THEN IntText(-1, BigOfInt(-n)) ELSE IntText(1, BigOfInt(n))

\* The whole part of the magnitude of a finite f.
Whole(f) ==
    IF f.m = << >> THEN << >>
    ELSE IF f.e >= 0 THEN BigShiftLeft(f.m, f.e)
    ELSE BigShiftRight(f.m, -f.e).q

\* 2^32 less low, or 0 for low = 0.
Complement32(low) == IF low = << >> THEN low ELSE BigSub(<<0, 0, 4>>, low)

\* The low 32 bits of a.
Bits32(a) == BigTrim(<<LimbAt(a, 1), LimbAt(a, 2), LimbAt(a, 3) % 4>>)

\* The low 32 bits of the two's complement of sign * a.
Low32(s, a) == IF s > 0 THEN Bits32(a) ELSE Complement32(Bits32(a))

\* sign * a, a whole number, is below -2^63 or above 2^63 - 1.
OutsideInt64(s, a) ==
    BigCmp(a, <<0, 0, 0, 0, 8>>) > 0 \/ (s > 0 /\ a = <<0, 0, 0, 0, 8>>)

\* int64 of the float64 of sign s and whole part a.
Int64Of(s, a) ==
    IF OutsideInt64(s, a)
    THEN {"-9223372036854775808",
          IF s > 0 THEN "9223372036854775807" ELSE "-9223372036854775808"}
    ELSE {IntText(s, a)}

\* int64(f) for a float64 that is not a constant: the whole part towards
\* zero.  For a value an int64 does not hold the result depends on the
\* processor: the smallest int64 where the conversion instruction answers
\* with it (amd64), the nearest int64 and 0 for NaN where it saturates
\* (arm64).
Int64(f) ==
    IF IsNaN(f) THEN {"-9223372036854775808", "0"}
    ELSE IF IsInf(f)
    THEN {"-9223372036854775808",
          IF f.s > 0 THEN "9223372036854775807" ELSE "-9223372036854775808"}
    ELSE Int64Of(f.s, Whole(f))

\* uint32 of the float64 of sign s and whole part a.
Uint32Of(s, a) ==
    IF OutsideInt64(s, a) THEN (IF s < 0 THEN {"0"} ELSE {"0", "4294967295"})
    ELSE IF (s > 0 \/ a = << >>) /\ BigCmp(a, <<0, 0, 4>>) < 0
    THEN {IntText(1, a)}
    ELSE {IntText(1, Low32(s, a)), IF s < 0 THEN "0" ELSE "4294967295"}

\* uint32(f) for a float64 that is not a constant: the whole part towards
\* zero when a uint32 holds it.  For any other value the result depends on
\* the processor: the low 32 bits of int64(f), which is the smallest int64
\* (amd64) or the nearest one (arm64) when no int64 holds the value, or the
\* nearest uint32; 0 for NaN.
Uint32(f) ==
    IF IsNaN(f) THEN {"0"}
    ELSE IF IsInf(f) THEN (IF f.s < 0 THEN {"0"} ELSE {"0", "4294967295"})
    ELSE Uint32Of(f.s, Whole(f))

\* A number of the model is a decimal text or a float64 already.
AsF64(x) == IF "n" \in DOMAIN x THEN F64(x) ELSE x

RECURSIVE Pow10(_)
\* multiplier := 1.0; for i < decimals { multiplier *= 10.0 }
Pow10(k) == IF k = 0 THEN 1 ELSE 10 * Pow10(k - 1)

\* The most decimals a market of the model has or the fallback uses.
MaxDecimals == 6

RECURSIVE MultiplierLoop(_)
\* multiplier := 1.0; for i < decimals { multiplier *= 10.0 }
MultiplierLoop(decimals) ==
    IF decimals = 0 THEN F64(Dec(1, 0))
    ELSE FMul(MultiplierLoop(decimals - 1), F64(Dec(10, 0)))

\* The multipliers, computed once.
Multiplier == [decimals \in 0..MaxDecimals |-> MultiplierLoop(decimals)]

FallbackDecimals == 4

\* x * multiplier, the multiplier of the given decimals
Scaled(x, decimals) == FMul(AsF64(x), Multiplier[decimals])

\* convertToBaseAmount: int64(quantity * multiplier) with the cached size
\* decimals, else with 4 decimals; the values the conversion may give.
convertToBaseAmount(cache, symbol, quantity) ==
    LET coin == convertSymbolToLighterCoin(symbol) IN
    IF coin \in DOMAIN cache
    THEN Int64(Scaled(quantity, cache[coin].SupportedSizeDecimals))
    ELSE Int64(Scaled(quantity, FallbackDecimals))

\* convertToLighterPrice with whole units for a coin that is not cached.
convertToLighterPriceWhole(cache, symbol, price) ==
    LET coin == convertSymbolToLighterCoin(symbol) IN
    IF coin \in DOMAIN cache
    THEN Uint32(Scaled(price, cache[coin].SupportedPriceDecimals))
    ELSE Uint32(Scaled(price, 0))

\* convertToLighterPrice: uint32(price * multiplier) with the cached price
\* decimals, else with 4 decimals; the values the conversion may give.
convertToLighterPrice(cache, symbol, price) ==
    LET coin == convertSymbolToLighterCoin(symbol) IN
    IF coin \in DOMAIN cache
    THEN Uint32(Scaled(price, cache[coin].SupportedPriceDecimals))
    ELSE Uint32(Scaled(price, FallbackDecimals))

\* The constants 1.01 and 0.99.
Factor == [percent \in {99, 101} |-> F64(Dec(percent, 2))]

\* price*1.01 and price*0.99, in float64
Times(x, percent) == FMul(AsF64(x), Factor[percent])

\* SkipPosition with no position skipped.
SkipPositionNever(position) == FALSE

\* if position == 0 { continue }
SkipPosition(position) == FIsZero(position)

\* PositionSide from the sign of the quantity.
PositionSideOfQuantity(sign, position) ==
    IF FPositive(position) THEN "long" ELSE "short"

\* if pos.Sign > 0 { side = "long" } else { side = "short" }
PositionSide(sign, position) == IF sign > 0 THEN "long" ELSE "short"

\* Leverage as 1 / imf.
LeverageOfUnit(imf) ==
    IF FPositive(imf) THEN FDiv(F64(Dec(1, 0)), imf) ELSE FZero

\* var leverage float64; if imf > 0 { leverage = 100.0 / imf }
Leverage(imf) ==
    IF FPositive(imf) THEN FDiv(F64(Dec(100, 0)), imf) ELSE FZero

\* GetPositions, from the accounts of the reply: of Accounts[0], zero
\* positions are skipped, the side comes from Sign, a short's amount is the
\* absolute value; numbers that do not parse are 0.
RECURSIVE PositionsLoop(_)
PositionsLoop(raw) ==
    IF raw = << >> THEN << >>
    ELSE LET pos == Head(raw)
             position == ParseFloat(pos.Position).value
             positionValue == ParseFloat(pos.PositionValue).value
             imf == ParseFloat(pos.InitialMarginFraction).value
         IN
         IF SkipPosition(position) THEN PositionsLoop(Tail(raw))
         ELSE << [symbol |-> pos.Symbol \o "USDT",
                  side |-> PositionSide(pos.Sign, position),
                  positionAmt |-> IF PositionSide(pos.Sign, position) = "long"
                                  THEN position
                                  ELSE absFloat64(position),
                  entryPrice |-> ParseFloat(pos.AvgEntryPrice).value,
                  markPrice |-> IF ~FIsZero(position)
                                THEN FDiv(positionValue, absFloat64(position))
                                ELSE FZero,
                  unRealizedProfit |-> ParseFloat(pos.UnrealizedPnl).value,
                  leverage |-> Leverage(imf),
                  liquidationPrice |-> ParseFloat(pos.LiquidationPrice).value] >>
              \o PositionsLoop(Tail(raw))

GetPositions(accounts) ==
    IF accounts = << >> THEN << >> ELSE PositionsLoop(accounts[1].Positions)

RECURSIVE TotalUnrealizedPnl(_, _)
\* totalUnrealizedPnl := 0.0; for each position, += unrealizedPnl
TotalUnrealizedPnl(total, raw) ==
    IF raw = << >> THEN total
    ELSE TotalUnrealizedPnl(FAdd(total, ParseFloat(Head(raw).UnrealizedPnl).value),
                            Tail(raw))

\* GetBalance with the collateral for its wallet balance.
GetBalanceOfCollateral(accounts) ==
    LET account == accounts[1]
        totalUnrealizedPnl == TotalUnrealizedPnl(FZero, account.Positions)
    IN [totalWalletBalance |-> ParseFloat(account.Collateral).value,
        availableBalance |-> ParseFloat(account.AvailableBalance).value,
        totalUnrealizedProfit |-> totalUnrealizedPnl]

\* GetBalance, from the accounts of the reply, which are not none.
GetBalance(accounts) ==
    LET account == accounts[1]
        availableBalance == ParseFloat(account.AvailableBalance).value
        collateral == ParseFloat(account.Collateral).value
        totalUnrealizedPnl == TotalUnrealizedPnl(FZero, account.Positions)
    IN [totalWalletBalance |-> FSub(collateral, totalUnrealizedPnl),
        availableBalance |-> availableBalance,
        totalUnrealizedProfit |-> totalUnrealizedPnl]

\* FindPositionAmt taking the first position on the symbol, whatever its
\* side.
RECURSIVE FindPositionAmtAnySide(_, _, _)
FindPositionAmtAnySide(positions, symbol, side) ==
    IF positions = << >> THEN FZero
    ELSE IF Head(positions).symbol = symbol
         THEN Head(positions).positionAmt
         ELSE FindPositionAmtAnySide(Tail(positions), symbol, side)

\* The loop of CloseLong/CloseShort: the amount of the first position on the
\* symbol and side, 0 when there is none.
RECURSIVE FindPositionAmt(_, _, _)
FindPositionAmt(positions, symbol, side) ==
    IF positions = << >> THEN FZero
    ELSE IF Head(positions).symbol = symbol /\ Head(positions).side = side
         THEN Head(positions).positionAmt
         ELSE FindPositionAmt(Tail(positions), symbol, side)

\* PriceOf with the best ask standing for the middle of the book.
PriceOfAsk(detail) ==
    LET markPrice == ParseFloat(detail.mark)
        askPrice == ParseFloat(detail.ask).value
        bidPrice == ParseFloat(detail.bid).value
    IN IF detail.mark # Absent /\ ~markPrice.err
       THEN [err |-> FALSE, price |-> markPrice.value]
       ELSE IF FPositive(askPrice) /\ FPositive(bidPrice)
            THEN [err |-> FALSE, price |-> askPrice]
            ELSE [err |-> TRUE, price |-> FZero]

\* GetMarketPrice after the request: the mark price when it is a text that
\* parses, else the middle of best ask and best bid when both are positive,
\* else no price.
PriceOf(detail) ==
    LET markPrice == ParseFloat(detail.mark)
        askPrice == ParseFloat(detail.ask).value
        bidPrice == ParseFloat(detail.bid).value
    IN IF detail.mark # Absent /\ ~markPrice.err
       THEN [err |-> FALSE, price |-> markPrice.value]
       ELSE IF FPositive(askPrice) /\ FPositive(bidPrice)
            THEN [err |-> FALSE,
                  price |-> FDiv(FAdd(askPrice, bidPrice), F64(Dec(2, 0)))]
            ELSE [err |-> TRUE, price |-> FZero]

(***************************************************************************)
(* The operations and their steps.                                         *)
(***************************************************************************)
OpenOps == {"OpenLong", "OpenShort"}
CloseOps == {"CloseLong", "CloseShort"}
ProtectOps == {"SetStopLoss", "SetTakeProfit"}
\* The two encoders, called on their own.
CodecOps == {"convertToBaseAmount", "convertToLighterPrice"}
QueryOps == {"GetMarketPrice", "GetPositions", "GetBalance"}
OpNames ==
    OpenOps \cup CloseOps \cup ProtectOps \cup CodecOps \cup QueryOps
        \cup {"SetLeverage", "CancelAllOrders"}

\* The statements of SetStopLoss (lines 690-730) in their order: "index" is
\* getMarketIndex, "size", "limit" and "trigger" the three encodings, "stamp"
\* the reading of clientOrderIndex, "order" the building and signing of the
\* request.
SetStopLossSteps == <<"index", "size", "limit", "trigger", "stamp", "order">>

\* The statements of SetTakeProfit (lines 733-773) in their order.
SetTakeProfitSteps == <<"index", "size", "limit", "trigger", "stamp", "order">>

\* Workflow with the stale-order cancel of the opens copied to the closes.
WorkflowCancelFirst(name) ==
    CASE name \in OpenOps ->
           <<"cancel", "index", "leverage", "index", "price", "size", "limit", "order">>
      [] name \in CloseOps ->
           <<"cancel", "qty", "index", "price", "size", "limit", "order", "cancel">>
      [] name = "SetStopLoss" -> SetStopLossSteps
      [] name = "SetTakeProfit" -> SetTakeProfitSteps
      [] name = "SetLeverage" -> <<"index", "leverage">>
      [] name = "CancelAllOrders" -> <<"cancel">>
      [] name = "convertToBaseAmount" -> <<"size">>
      [] name = "convertToLighterPrice" -> <<"limit">>
      [] name = "GetMarketPrice" -> <<"price">>
      [] name = "GetPositions" -> <<"positions">>
      [] name = "GetBalance" -> <<"balance">>

\* Workflow with the cancel after a close left out.
WorkflowNoCleanup(name) ==
    CASE name \in OpenOps ->
           <<"cancel", "index", "leverage", "index", "price", "size", "limit", "order">>
      [] name \in CloseOps ->
           <<"qty", "index", "price", "size", "limit", "order">>
      [] name = "SetStopLoss" -> SetStopLossSteps
      [] name = "SetTakeProfit" -> SetTakeProfitSteps
      [] name = "SetLeverage" -> <<"index", "leverage">>
      [] name = "CancelAllOrders" -> <<"cancel">>
      [] name = "convertToBaseAmount" -> <<"size">>
      [] name = "convertToLighterPrice" -> <<"limit">>
      [] name = "GetMarketPrice" -> <<"price">>
      [] name = "GetPositions" -> <<"positions">>
      [] name = "GetBalance" -> <<"balance">>

\* Workflow with the protective order submitted a second time.
WorkflowResubmit(name) ==
    CASE name \in OpenOps ->
           <<"cancel", "index", "leverage", "index", "price", "size", "limit", "order">>
      [] name \in CloseOps ->
           <<"qty", "index", "price", "size", "limit", "order", "cancel">>
      [] name \in ProtectOps ->
           <<"index", "size", "limit", "trigger", "stamp", "order", "order">>
      [] name = "SetLeverage" -> <<"index", "leverage">>
      [] name = "CancelAllOrders" -> <<"cancel">>
      [] name = "convertToBaseAmount" -> <<"size">>
      [] name = "convertToLighterPrice" -> <<"limit">>
      [] name = "GetMarketPrice" -> <<"price">>
      [] name = "GetPositions" -> <<"positions">>
      [] name = "GetBalance" -> <<"balance">>

\* The order in which an operation takes its steps.  "index" is
\* getMarketIndex, "leverage" the request of SetLeverage, "qty" the position
\* lookup of a close, "size" and "limit" the two encodings, "trigger" the
\* encoding of the trigger price, "order" the submission, "cancel"
\* CancelAllOrders.
Workflow(name) ==
    CASE name \in OpenOps ->
           <<"cancel", "index", "leverage", "index", "price", "size", "limit", "order">>
      [] name \in CloseOps ->
           <<"qty", "index", "price", "size", "limit", "order", "cancel">>
      [] name = "SetStopLoss" -> SetStopLossSteps
      [] name = "SetTakeProfit" -> SetTakeProfitSteps
      [] name = "SetLeverage" -> <<"index", "leverage">>
      [] name = "CancelAllOrders" -> <<"cancel">>
      [] name = "convertToBaseAmount" -> <<"size">>
      [] name = "convertToLighterPrice" -> <<"limit">>
      [] name = "GetMarketPrice" -> <<"price">>
      [] name = "GetPositions" -> <<"positions">>
      [] name = "GetBalance" -> <<"balance">>

\* CancelFatal with a failed cancel ending every operation.
CancelAlwaysFatal(name) == TRUE

\* Whether a failed CancelAllOrders ends the operation: the workflows log it
\* and go on, CancelAllOrders itself returns it.
CancelFatal(name) == name = "CancelAllOrders"

\* LeverageFatal with the error of SetLeverage only logged.
LeverageLogged(name) == FALSE

\* Whether a failed leverage request ends the operation.
LeverageFatal(name) == TRUE

\* SetTakeProfit: if err != nil { return fmt.Errorf(...) } after
\* GetCreateOrderTransaction (lines 765-768).
TakeProfitFatal == TRUE

\* OrderFatal with the error of the submission only logged.
OrderLogged(name) == FALSE

\* Whether a failed order submission ends the operation.
OrderFatal(name) == IF name = "SetTakeProfit" THEN TakeProfitFatal ELSE TRUE

\* StopLossIsAsk with the stop-loss order on the side of the position.
StopLossIsAskSameSide(positionSide) == IF positionSide = "LONG" THEN 0 ELSE 1

\* SetStopLoss: isAsk := uint8(0); if positionSide == "LONG" { isAsk = 1 }
StopLossIsAsk(positionSide) == IF positionSide = "LONG" THEN 1 ELSE 0

\* SetTakeProfit: isAsk := uint8(0); if positionSide == "LONG" { isAsk = 1 }
TakeProfitIsAsk(positionSide) == IF positionSide = "LONG" THEN 1 ELSE 0

\* IsAsk with a close on the side of the position it closes.
IsAskSameSide(name, positionSide) ==
    CASE name = "OpenLong" -> 0
      [] name = "OpenShort" -> 1
      [] name = "CloseLong" -> 0
      [] name = "CloseShort" -> 1
      [] name = "SetTakeProfit" -> TakeProfitIsAsk(positionSide)
      [] OTHER -> StopLossIsAsk(positionSide)

\* IsAsk of the order an operation builds.
IsAsk(name, positionSide) ==
    CASE name = "OpenLong" -> 0
      [] name = "OpenShort" -> 1
      [] name = "CloseLong" -> 1
      [] name = "CloseShort" -> 0
      [] name = "SetTakeProfit" -> TakeProfitIsAsk(positionSide)
      [] OTHER -> StopLossIsAsk(positionSide)

\* LimitInput with the fetched price taken as it is.
LimitInputNoOffset(name, price, given) ==
    IF name \in ProtectOps THEN given ELSE price

\* The price the limit is encoded from: price*1.01 for a buy, price*0.99 for
\* a sell, stopPrice for SetStopLoss (line 702), takeProfitPrice for
\* SetTakeProfit (line 745), the argument for the encoder called on its own.
LimitInput(name, price, given) ==
    CASE name \in {"OpenLong", "CloseShort"} -> Times(price, 101)
      [] name \in {"OpenShort", "CloseLong"} -> Times(price, 99)
      [] name = "SetStopLoss" -> given
      [] name = "SetTakeProfit" -> given
      [] OTHER -> given

\* Type of the request of the opens, the closes and SetStopLoss; the request
\* of SetTakeProfit is TakeProfitReq.
OrderType(name) ==
    CASE name = "SetStopLoss" -> "StopLossOrder"
      [] OTHER -> "LimitOrder"

\* ReduceOnly with every order reduce-only.
ReduceOnlyAlways(name) == 1

\* ReduceOnly of the request of the opens (0), the closes and SetStopLoss (1).
ReduceOnly(name) == IF name \in OpenOps THEN 0 ELSE 1

\* The side CloseLong / CloseShort look for.
CloseSide(name) == IF name = "CloseLong" THEN "long" ELSE "short"

\* Go's integer division: the quotient truncated toward zero.
Quo(a, b) ==
    LET abs(x) == IF x < 0 THEN -x ELSE x
        q == abs(a) \div abs(b)
    IN IF (a < 0) = (b < 0) THEN q ELSE -q

\* ImfOf in hundredths instead of ten-thousandths.
ImfOfHundredths(leverage) == Quo(100, leverage) % 65536

\* uint16(10000 / leverage): the conversion keeps the low 16 bits.
ImfOf(leverage) == Quo(10000, leverage) % 65536

\* time.Now(): the day, the millisecond of the day and the rest below it.
Instant(ticks) ==
    [day |-> StartDay, ms |-> ticks \div TicksPerMs, sub |-> ticks % TicksPerMs]

\* t.Add(hours * time.Hour)
AddHours(t, hours) ==
    [t EXCEPT !.day = @ + (hours \div 24), !.ms = @ + (hours % 24) * 3600000]

\* t.UnixMilli(), and t.UnixNano() / 1000000: the milliseconds since the
\* epoch, written as the day and the millisecond of the day.
UnixMilli(t) == [day |-> t.day, ms |-> t.ms]

\* txtypes.NilOrderExpiry and txtypes.NilOrderTriggerPrice
NilOrderExpiry == [day |-> 0, ms |-> 0]
NilOrderTriggerPrice == "0"

\* OrderExpiry with no expiry on the stop-loss order either.
OrderExpiryNever(name, t) == NilOrderExpiry

\* OrderExpiry of the order an open, a close or SetStopLoss builds at the
\* instant t: 30 days ahead for a stop-loss (line 707), none otherwise.
OrderExpiry(name, t) ==
    IF name = "SetStopLoss" THEN UnixMilli(AddHours(t, 30 * 24))
    ELSE NilOrderExpiry

\* The CancelAllOrdersTxReq of CancelAllOrders(symbol), built at the instant
\* t: the symbol is not in it.
CancelReq(symbol, t) == [TimeInForce |-> "ImmediateCancelAll", Time |-> UnixMilli(t)]

\* What such a transaction cancels once the exchange executes it, of the
\* orders resting per market: it names no market, so every resting order of
\* the account goes. The trader only signs it and never sends it.
ApplyCancelAll(orders, symbol) == [m \in DOMAIN orders |-> 0]

(***************************************************************************)
(* State.                                                                  *)
(***************************************************************************)
NoOp == [name |-> "none", symbol |-> "", quantity |-> Zero, leverage |-> 0,
         positionSide |-> "", price |-> Zero]

NoLookup == [probes |-> 0, reloads |-> 0, reloadOk |-> FALSE, found |-> FALSE,
             first |-> FALSE,
             before |-> << >>, list |-> << >>]

\* What a run that is compared with another started from; unused otherwise.
NoStart == [cache |-> << >>, clock |-> 0]

\* Before the order is built and signed; what an operation returns besides
\* its error before it returned, and when it returns nothing else.
NoClientOrderIndex == [day |-> 0, ms |-> 0]
NoTxInfo == [SignedHash |-> [hashOf |-> [Type |-> ""]]]
NoValue == << >>

Idle == [op |-> NoOp, pc |-> 0, sub |-> "probe", pend |-> << >>,
         start |-> NoStart,
         lk |-> NoLookup, account |-> << >>,
         marketIndex |-> 0, quantity |-> Zero, price |-> Zero,
         baseAmount |-> "0", lighterPrice |-> "0",
         triggerPrice |-> NilOrderTriggerPrice,
         clientOrderIndex |-> NoClientOrderIndex, txInfo |-> NoTxInfo,
         out |-> NoValue,
         calls |-> << >>, result |-> "none"]

\* NewLighterTrader: an empty map, then one loadMarketInfo whose failure is
\* only logged.
Init ==
    /\ marketInfoCache \in
           {EmptyCache} \cup {StoreAll(EmptyCache, l) : l \in MarketLists}
    /\ w = [p \in Procs |-> Idle]
    /\ clock = 0

Running(p) == w[p].pc > 0 /\ w[p].result = "none"
Step(p) == Workflow(w[p].op.name)[w[p].pc]
At(p, step) == Running(p) /\ Step(p) = step
Coin(p) == convertSymbolToLighterCoin(w[p].op.symbol)

\* OrderResult with the order index of no order.
OrderResultNoIndex(r) ==
    [orderId |-> NoClientOrderIndex, symbol |-> r.op.symbol,
     status |-> "PENDING", hash |-> r.txInfo.SignedHash]

\* The result map of a successful open or close.
OrderResult(r) ==
    [orderId |-> r.clientOrderIndex, symbol |-> r.op.symbol,
     status |-> "PENDING", hash |-> r.txInfo.SignedHash]

\* What the operation returns with a nil error.
ReturnValue(r) ==
    IF r.op.name \in OpenOps \cup CloseOps THEN OrderResult(r)
    ELSE IF r.op.name = "GetMarketPrice" THEN r.price
    ELSE r.out

\* The worker after its current step succeeded: the next step, or the
\* successful return after the last one.
Advance(r) ==
    IF r.pc = Len(Workflow(r.op.name))
    THEN [r EXCEPT !.pc = @ + 1, !.result = "ok", !.sub = "probe",
                   !.out = ReturnValue(r)]
    ELSE [r EXCEPT !.pc = @ + 1, !.sub = "probe"]

\* The worker after an error return.
Fail(r, err) == [r EXCEPT !.result = err]

Logged(r, call) == [r EXCEPT !.calls = Append(@, call)]

(***************************************************************************)
(* Calling an operation.                                                   *)
(***************************************************************************)
\* The calls a caller may make.
Calls ==
    [name : OpenOps, symbol : Symbols, quantity : Quantities \ {Zero},
     leverage : Leverages, positionSide : {""}, price : {Zero}]
    \cup
    [name : CloseOps, symbol : Symbols, quantity : Quantities,
     leverage : {0}, positionSide : {""}, price : {Zero}]
    \cup
    [name : ProtectOps, symbol : Symbols, quantity : Quantities \ {Zero},
     leverage : {0}, positionSide : PositionSides, price : StopPrices]
    \cup
    [name : {"SetLeverage"}, symbol : Symbols, quantity : {Zero},
     leverage : Leverages \cup BadLeverages, positionSide : {""}, price : {Zero}]
    \cup
    [name : {"CancelAllOrders"}, symbol : Symbols, quantity : {Zero},
     leverage : {0}, positionSide : {""}, price : {Zero}]
    \cup
    [name : {"convertToBaseAmount"}, symbol : Symbols, quantity : CodecInputs,
     leverage : {0}, positionSide : {""}, price : {Zero}]
    \cup
    [name : {"convertToLighterPrice"}, symbol : Symbols, quantity : {Zero},
     leverage : {0}, positionSide : {""}, price : CodecInputs]

\* The calls that only read the exchange.
Queries ==
    [name : {"GetMarketPrice"}, symbol : Symbols, quantity : {Zero},
     leverage : {0}, positionSide : {""}, price : {Zero}]
    \cup
    [name : {"GetPositions", "GetBalance"}, symbol : {""}, quantity : {Zero},
     leverage : {0}, positionSide : {""}, price : {Zero}]

\* The calls two goroutines make at the same time.
ConcurrentCalls ==
    {c \in Calls : /\ c.name \in {"OpenLong", "CloseLong", "SetStopLoss"}
                   /\ c.symbol \in {"BTCUSDT", "ETHUSDT"}
                   /\ c.quantity # Zero
                   /\ c.name = "OpenLong" => c.leverage = 10
                   /\ c.positionSide \in {"", "LONG"}}

Begin(p, calls) ==
    /\ w[p].pc = 0
    /\ \E c \in calls :
          w' = [w EXCEPT ![p] = [Idle EXCEPT !.op = c, !.pc = 1,
                                             !.quantity = c.quantity]]
    /\ UNCHANGED <<marketInfoCache, clock>>

Invoke(p) == Begin(p, Calls)

\* Of the concurrent calls, the first goroutine opens on BTC or sets a
\* stop-loss, the second closes or sets a stop-loss on BTC.
InvokeConcurrent(p) ==
    Begin(p, {c \in ConcurrentCalls :
                 IF p = "g1"
                 THEN (c.name = "OpenLong" /\ c.symbol = "BTCUSDT")
                          \/ (c.name = "SetStopLoss")
                 ELSE c.symbol = "BTCUSDT"
                          /\ c.name \in {"CloseLong", "SetStopLoss"}})

InvokeQuery(p) == Begin(p, Queries)

\* The caller takes the result; the goroutine is free for the next call.
Return(p) ==
    /\ w[p].result \notin {"none", "fatal"}
    /\ w' = [w EXCEPT ![p] = Idle]
    /\ UNCHANGED <<marketInfoCache, clock>>

(***************************************************************************)
(* CancelAllOrders.                                                        *)
(***************************************************************************)
CancelAllOrders(p) ==
    /\ At(p, "cancel")
    /\ \E ok \in BOOLEAN :
          LET r == Logged(w[p], [call |-> "cancelAllOrders", ok |-> ok,
                                 req |-> CancelReq(w[p].op.symbol, Instant(clock))])
          IN
          w' = [w EXCEPT ![p] =
                   IF ok \/ ~CancelFatal(r.op.name) THEN Advance(r)
                   ELSE Fail(r, "CancelFailed")]
    /\ UNCHANGED <<marketInfoCache, clock>>

(***************************************************************************)
(* getMarketIndex and loadMarketInfo.                                      *)
(***************************************************************************)
\* LookupNext with a second miss answered by another reload.
LookupNextRetry(phase, good) ==
    CASE phase = "probe" /\ good -> "return"
      [] phase = "probe" /\ ~good -> "reload"
      [] phase = "reload" /\ good -> "reprobe"
      [] phase = "reload" /\ ~good -> "notfound"
      [] phase = "reprobe" /\ good -> "return"
      [] phase = "reprobe" /\ ~good -> "reload"

\* Where getMarketIndex goes after a probe of the map or after the reload.
LookupNext(phase, good) ==
    CASE phase = "probe" /\ good -> "return"
      [] phase = "probe" /\ ~good -> "reload"
      [] phase = "reload" /\ good -> "reprobe"
      [] phase = "reload" /\ ~good -> "notfound"
      [] phase = "reprobe" /\ good -> "return"
      [] phase = "reprobe" /\ ~good -> "notfound"

\* Lookup with the error of getMarketIndex ignored: the operation goes on
\* with market index 0.
LookupMissIgnored(r, next, cache) ==
    CASE next = "return" ->
           Advance([r EXCEPT
               !.marketIndex = cache[convertSymbolToLighterCoin(r.op.symbol)].MarketID,
               !.lk.found = TRUE, !.lk.before = << >>, !.lk.list = << >>])
      [] next = "notfound" -> Advance(r)
      [] OTHER -> [r EXCEPT !.sub = next]

\* The worker r after getMarketIndex decided `next`.
Lookup(r, next, cache) ==
    CASE next = "return" ->
           Advance([r EXCEPT
               !.marketIndex = cache[convertSymbolToLighterCoin(r.op.symbol)].MarketID,
               !.lk.found = TRUE, !.lk.before = << >>, !.lk.list = << >>])
      [] next = "notfound" -> Fail(r, "MarketNotFound")
      [] OTHER -> [r EXCEPT !.sub = next]

\* marketInfo, exists := t.marketInfoCache[coin]
LookupProbe(p) ==
    /\ At(p, "index") /\ w[p].sub = "probe"
    /\ LET exists == Coin(p) \in DOMAIN marketInfoCache
           r == [w[p] EXCEPT !.lk = [NoLookup EXCEPT !.probes = 1,
                                                     !.first = exists]]
       IN w' = [w EXCEPT ![p] =
                   Lookup(r, LookupNext("probe", exists), marketInfoCache)]
    /\ UNCHANGED <<marketInfoCache, clock>>

\* FailedLoad with the map emptied before the request.
FailedLoadCleared(cache) == EmptyCache

\* The map a failed loadMarketInfo leaves.
FailedLoad(cache) == cache

\* loadMarketInfo up to the store loop: the request fails, or the list of
\* order books is parsed.
LoadFetch(p) ==
    /\ At(p, "index") /\ w[p].sub = "reload"
    /\ \/ \E why \in ReloadFailures :
             LET r == Logged([w[p] EXCEPT !.lk.reloads = @ + 1,
                                          !.lk.reloadOk = FALSE,
                                          !.lk.before = marketInfoCache],
                             [call |-> "listMarkets", ok |-> FALSE]) IN
             /\ w' = [w EXCEPT ![p] =
                         Lookup(r, LookupNext("reload", FALSE), marketInfoCache)]
             /\ marketInfoCache' = FailedLoad(marketInfoCache)
       \/ \E l \in MarketLists :
             /\ w' = [w EXCEPT ![p] =
                         Logged([@ EXCEPT !.lk.reloads = @ + 1,
                                          !.lk.reloadOk = TRUE,
                                          !.lk.before = marketInfoCache,
                                          !.lk.list = l,
                                          !.pend = l, !.sub = "store"],
                                [call |-> "listMarkets", ok |-> TRUE, list |-> l])]
             /\ marketInfoCache' = marketInfoCache
    /\ UNCHANGED clock

\* One pass of the store loop; past the last order book loadMarketInfo
\* returns nil.
LoadStore(p) ==
    /\ At(p, "index") /\ w[p].sub = "store"
    /\ IF w[p].pend = << >>
       THEN /\ w' = [w EXCEPT ![p] =
                        Lookup(@, LookupNext("reload", TRUE), marketInfoCache)]
            /\ marketInfoCache' = marketInfoCache
       ELSE /\ marketInfoCache' = StoreMarket(marketInfoCache, Head(w[p].pend))
            /\ w' = [w EXCEPT ![p].pend = Tail(@)]
    /\ UNCHANGED clock

\* marketInfo, exists = t.marketInfoCache[coin], after the reload
LookupReprobe(p) ==
    /\ At(p, "index") /\ w[p].sub = "reprobe"
    /\ LET r == [w[p] EXCEPT !.lk.probes = @ + 1] IN
       w' = [w EXCEPT ![p] =
                Lookup(r, LookupNext("reprobe", Coin(p) \in DOMAIN marketInfoCache),
                       marketInfoCache)]
    /\ UNCHANGED <<marketInfoCache, clock>>

\* The step a goroutine is about to take reads or writes the map.
TouchesCache(q) ==
    \/ At(q, "index") /\ w[q].sub \in {"probe", "store", "reprobe"}
    \/ At(q, "price") \/ At(q, "size") \/ At(q, "limit") \/ At(q, "trigger")

\* The process after the Go runtime's "concurrent map read and map write".
Fatal == [Idle EXCEPT !.result = "fatal"]

\* The map is a plain Go map and the trader takes no lock: a store of the
\* loop that overlaps another goroutine's access is a data race, which the
\* runtime may answer by ending the process.
MapRace(p) ==
    /\ At(p, "index") /\ w[p].sub = "store" /\ w[p].pend # << >>
    /\ \E q \in Procs \ {p} : TouchesCache(q)
    /\ w' = [x \in Procs |-> Fatal]
    /\ UNCHANGED <<marketInfoCache, clock>>

(***************************************************************************)
(* SetLeverage, after its getMarketIndex.                                  *)
(***************************************************************************)
\* The division of line 319 with a leverage of 0 is Go's "integer divide by
\* zero" panic, which nothing recovers: the process ends, and the goroutine
\* keeps the call it made for the record.
UpdateLeverage(p) ==
    /\ At(p, "leverage")
    /\ \/ /\ w[p].op.leverage = 0
          /\ w' = [x \in Procs |->
                      IF x = p THEN [w[p] EXCEPT !.result = "fatal"] ELSE Fatal]
       \/ /\ w[p].op.leverage # 0
          /\ \E ok \in BOOLEAN :
                LET r == Logged(w[p],
                           [call |-> "updateLeverage", ok |-> ok,
                            req |-> [MarketIndex |-> w[p].marketIndex,
                                     InitialMarginFraction |-> ImfOf(w[p].op.leverage),
                                     MarginMode |-> "CrossMargin"]]) IN
                w' = [w EXCEPT ![p] =
                         IF ok \/ ~LeverageFatal(r.op.name) THEN Advance(r)
                         ELSE Fail(r, "LeverageSetFailed")]
    /\ UNCHANGED <<marketInfoCache, clock>>

(***************************************************************************)
(* CloseLong / CloseShort: the quantity of a close of everything.          *)
(***************************************************************************)
\* QuantityNext without the check of the amount found.
QuantityNextUnchecked(amount) == "go"

\* What the close does with the amount found (0: no position).
QuantityNext(amount) == IF FIsZero(amount) THEN "nopos" ELSE "go"

ResolveQuantity(p) ==
    /\ At(p, "qty")
    /\ \/ /\ w[p].op.quantity.n # 0
          /\ w' = [w EXCEPT ![p] = Advance(@)]
       \/ /\ w[p].op.quantity.n = 0
          /\ LET r == Logged(w[p], [call |-> "getAccount", ok |-> FALSE]) IN
             w' = [w EXCEPT ![p] = Fail(r, "AccountUnavailable")]
       \/ /\ w[p].op.quantity.n = 0
          /\ \E raw \in AccountPositions :
                LET positions == GetPositions(<<Account("0", "0", raw)>>)
                    amount == FindPositionAmt(positions, w[p].op.symbol,
                                              CloseSide(w[p].op.name))
                    r == Logged([w[p] EXCEPT !.account = raw,
                                             !.quantity = amount],
                                [call |-> "getAccount", ok |-> TRUE])
                IN w' = [w EXCEPT ![p] =
                            IF QuantityNext(amount) = "nopos"
                            THEN Fail(r, "NoPositionToClose")
                            ELSE Advance(r)]
    /\ UNCHANGED <<marketInfoCache, clock>>

(***************************************************************************)
(* GetMarketPrice.                                                         *)
(***************************************************************************)
\* PriceOf for each reply, worked out once.
PriceOfReply == [detail \in QueriedDetails |-> PriceOf(detail)]

\* The reply is kept with the call when the price is all the caller asked
\* for.
NoDetail == [mark |-> Absent, ask |-> Absent, bid |-> Absent]
Kept(name, detail) == IF name = "GetMarketPrice" THEN detail ELSE NoDetail

GetMarketPrice(p) ==
    /\ At(p, "price")
    /\ \/ /\ Coin(p) \notin DOMAIN marketInfoCache
          /\ w' = [w EXCEPT ![p] = Fail(@, "MarketNotFound")]
       \/ /\ Coin(p) \in DOMAIN marketInfoCache
          /\ LET r == Logged(w[p], [call |-> "getOrderBookDetail", ok |-> FALSE]) IN
             w' = [w EXCEPT ![p] = Fail(r, "PriceFetchFailed")]
       \/ /\ Coin(p) \in DOMAIN marketInfoCache
          /\ \E detail \in Details(w[p].op.name) :
                LET r == Logged(w[p], [call |-> "getOrderBookDetail", ok |-> TRUE,
                                       detail |-> Kept(w[p].op.name, detail)])
                    found == PriceOfReply[detail]
                IN
                w' = [w EXCEPT ![p] =
                         IF found.err THEN Fail(r, "PriceUnavailable")
                         ELSE Advance([r EXCEPT !.price = found.price])]
    /\ UNCHANGED <<marketInfoCache, clock>>

(***************************************************************************)
(* Encoding and submitting the order.                                      *)
(***************************************************************************)
\* baseAmount := t.convertToBaseAmount(symbol, quantity)
EncodeSize(p) ==
    /\ At(p, "size")
    /\ LET r == w[p] IN
       \E baseAmount \in convertToBaseAmount(marketInfoCache, r.op.symbol,
                                             r.quantity) :
           w' = [w EXCEPT ![p] = Advance([r EXCEPT !.baseAmount = baseAmount])]
    /\ UNCHANGED <<marketInfoCache, clock>>

\* lighterPrice := t.convertToLighterPrice(symbol, ...)
EncodePrice(p) ==
    /\ At(p, "limit")
    /\ LET r == w[p] IN
       \E lighterPrice \in convertToLighterPrice(marketInfoCache, r.op.symbol,
                                 LimitInput(r.op.name, r.price, r.op.price)) :
           w' = [w EXCEPT ![p] =
                    Advance([r EXCEPT !.lighterPrice = lighterPrice])]
    /\ UNCHANGED <<marketInfoCache, clock>>

\* triggerPrice := t.convertToLighterPrice(symbol, stopPrice)
EncodeTrigger(p) ==
    /\ At(p, "trigger")
    /\ LET r == w[p] IN
       \E triggerPrice \in convertToLighterPrice(marketInfoCache, r.op.symbol,
                                                 r.op.price) :
           w' = [w EXCEPT ![p] =
                    Advance([r EXCEPT !.triggerPrice = triggerPrice])]
    /\ UNCHANGED <<marketInfoCache, clock>>

\* clientOrderIndex := time.Now().UnixNano() / 1000000 of SetStopLoss and
\* SetTakeProfit, which read the clock once more for the expiry.
ReadClientOrderIndex(p) ==
    /\ At(p, "stamp")
    /\ w' = [w EXCEPT ![p] =
                Advance([w[p] EXCEPT !.clientOrderIndex = UnixMilli(Instant(clock))])]
    /\ UNCHANGED <<marketInfoCache, clock>>

\* TakeProfitReq built as the request of a close: no trigger price and no
\* expiry.
TakeProfitReqOfClose(r, t) ==
    [MarketIndex |-> r.marketIndex,
     ClientOrderIndex |-> r.clientOrderIndex,
     BaseAmount |-> r.baseAmount,
     Price |-> r.lighterPrice,
     IsAsk |-> TakeProfitIsAsk(r.op.positionSide),
     Type |-> "TakeProfitOrder",
     TimeInForce |-> "ImmediateOrCancel",
     ReduceOnly |-> 1,
     TriggerPrice |-> NilOrderTriggerPrice,
     OrderExpiry |-> NilOrderExpiry]

\* The CreateOrderTxReq of SetTakeProfit (lines 752-763), built at the
\* instant t at which orderExpiry reads the clock (line 750):
\* clientOrderIndex was read before (line 747).
TakeProfitReq(r, t) ==
    [MarketIndex |-> r.marketIndex,
     ClientOrderIndex |-> r.clientOrderIndex,
     BaseAmount |-> r.baseAmount,
     Price |-> r.lighterPrice,
     IsAsk |-> TakeProfitIsAsk(r.op.positionSide),
     Type |-> "TakeProfitOrder",
     TimeInForce |-> "ImmediateOrCancel",
     ReduceOnly |-> 1,
     TriggerPrice |-> r.triggerPrice,
     OrderExpiry |-> UnixMilli(AddHours(t, 30 * 24))]

\* The CreateOrderTxReq of the worker, built at the instant t: the opens and
\* closes read their clientOrderIndex there, SetStopLoss has read it before
\* (line 704) and reads the clock again for the expiry; SetTakeProfit builds
\* its own.
OrderReq(r, t) ==
    IF r.op.name = "SetTakeProfit" THEN TakeProfitReq(r, t)
    ELSE
    [MarketIndex |-> r.marketIndex,
     ClientOrderIndex |-> IF r.op.name = "SetStopLoss" THEN r.clientOrderIndex
                          ELSE UnixMilli(t),
     BaseAmount |-> r.baseAmount,
     Price |-> r.lighterPrice, IsAsk |-> IsAsk(r.op.name, r.op.positionSide),
     Type |-> OrderType(r.op.name), TimeInForce |-> "ImmediateOrCancel",
     ReduceOnly |-> ReduceOnly(r.op.name), TriggerPrice |-> r.triggerPrice,
     OrderExpiry |-> OrderExpiry(r.op.name, t)]

\* The hash of the transaction GetCreateOrderTransaction signed: one for
\* each order, told apart by what the order holds.
SignedHash(req) == [hashOf |-> req]

CreateOrder(p) ==
    /\ At(p, "order")
    /\ \E ok \in BOOLEAN :
          LET req == OrderReq(w[p], Instant(clock))
              txInfo == IF ok THEN [SignedHash |-> SignedHash(req)] ELSE NoTxInfo
              r == Logged([w[p] EXCEPT !.clientOrderIndex = req.ClientOrderIndex,
                                       !.txInfo = txInfo],
                          [call |-> "createOrder", ok |-> ok,
                           at |-> Instant(clock), req |-> req,
                           txInfo |-> txInfo]) IN
          w' = [w EXCEPT ![p] =
                   IF ok \/ ~OrderFatal(r.op.name) THEN Advance(r)
                   ELSE Fail(r, "OrderSubmissionFailed")]
    /\ UNCHANGED <<marketInfoCache, clock>>

(***************************************************************************)
(* GetPositions and GetBalance called on their own.                        *)
(***************************************************************************)
\* The ways the account request fails before its accounts are read.
AccountFailures == {"transport", "status", "parse", "code"}

\* GetPositions: an account reply with no account gives no position.
QueryPositions(p) ==
    /\ At(p, "positions")
    /\ \/ \E failure \in AccountFailures :
             LET r == Logged(w[p], [call |-> "getAccount", ok |-> FALSE,
                                    failure |-> failure]) IN
             w' = [w EXCEPT ![p] = Fail(r, "AccountUnavailable")]
       \/ \E accounts \in AccountReplies :
             LET r == Logged(w[p], [call |-> "getAccount", ok |-> TRUE,
                                    accounts |-> accounts]) IN
             w' = [w EXCEPT ![p] =
                      Advance([r EXCEPT !.out = GetPositions(accounts)])]
    /\ UNCHANGED <<marketInfoCache, clock>>

\* GetBalance: an account reply with no account is an error.
QueryBalance(p) ==
    /\ At(p, "balance")
    /\ \/ \E failure \in AccountFailures :
             LET r == Logged(w[p], [call |-> "getAccount", ok |-> FALSE,
                                    failure |-> failure]) IN
             w' = [w EXCEPT ![p] = Fail(r, "AccountUnavailable")]
       \/ \E accounts \in AccountReplies :
             LET r == Logged(w[p], [call |-> "getAccount", ok |-> TRUE,
                                    accounts |-> accounts]) IN
             w' = [w EXCEPT ![p] =
                      IF accounts = << >> THEN Fail(r, "AccountNotFound")
                      ELSE Advance([r EXCEPT !.out = GetBalance(accounts)])]
    /\ UNCHANGED <<marketInfoCache, clock>>

\* Time passes.
Tick ==
    /\ clock < MaxClock
    /\ clock' = clock + 1
    /\ UNCHANGED <<marketInfoCache, w>>

(***************************************************************************)
(* The specifications: any number of goroutines, and one goroutine.        *)
(***************************************************************************)
Steps(p) ==
    \/ Return(p)
    \/ CancelAllOrders(p)
    \/ LookupProbe(p)
    \/ LoadFetch(p)
    \/ LoadStore(p)
    \/ LookupReprobe(p)
    \/ UpdateLeverage(p)
    \/ ResolveQuantity(p)
    \/ GetMarketPrice(p)
    \/ EncodeSize(p)
    \/ EncodePrice(p)
    \/ EncodeTrigger(p)
    \/ ReadClientOrderIndex(p)
    \/ CreateOrder(p)

\* Two goroutines share one trader, and time passes.
Next == Tick \/ \E p \in Procs : InvokeConcurrent(p) \/ Steps(p) \/ MapRace(p)

Spec == Init /\ [][Next]_vars

\* One goroutine makes every call the trader offers, one after the other.
NextSeq == Tick \/ \E p \in SeqProcs : Invoke(p) \/ Steps(p)

SpecSeq == Init /\ [][NextSeq]_vars

\* One goroutine reads prices, positions and the balance.
NextQuery ==
    \E p \in SeqProcs :
        \/ InvokeQuery(p)
        \/ Return(p)
        \/ GetMarketPrice(p)
        \/ QueryPositions(p)
        \/ QueryBalance(p)

SpecQuery == Init /\ [][NextQuery]_vars

(***************************************************************************)
(* SetStopLoss and SetTakeProfit side by side: a run of SetStopLoss, then  *)
(* a run of SetTakeProfit with the same arguments, from the same cache and *)
(* clock, to which the exchange gives the answers it gave the first run.   *)
(***************************************************************************)
\* The steps SetStopLoss and SetTakeProfit are made of.
ProtectSteps(p) ==
    \/ LookupProbe(p)
    \/ LoadFetch(p)
    \/ LoadStore(p)
    \/ LookupReprobe(p)
    \/ EncodeSize(p)
    \/ EncodePrice(p)
    \/ EncodeTrigger(p)
    \/ ReadClientOrderIndex(p)
    \/ CreateOrder(p)

\* SetStopLoss is called; the state it starts from is kept.
FirstRun ==
    /\ w["g1"].pc = 0 /\ w["g2"].pc = 0
    /\ \E c \in {c \in Calls : c.name = "SetStopLoss"} :
          w' = [w EXCEPT !["g1"] =
                   [Idle EXCEPT !.op = c, !.pc = 1, !.quantity = c.quantity,
                                !.start = [cache |-> marketInfoCache,
                                           clock |-> clock]]]
    /\ UNCHANGED <<marketInfoCache, clock>>

\* SetTakeProfit is called with the arguments of the first run, on a trader
\* in the state the first run started from.
SecondRun ==
    /\ w["g1"].pc > 0 /\ w["g1"].result # "none"
    /\ w["g2"].pc = 0
    /\ w' = [w EXCEPT !["g2"] =
                [Idle EXCEPT !.op = [w["g1"].op EXCEPT !.name = "SetTakeProfit"],
                             !.pc = 1, !.quantity = w["g1"].op.quantity,
                             !.start = w["g1"].start]]
    /\ marketInfoCache' = w["g1"].start.cache
    /\ clock' = w["g1"].start.clock

\* What the outside answered to a call: the outcome, the order books listed,
\* the time read.
Answer(c) ==
    [ok |-> c.ok,
     list |-> IF c.call = "listMarkets" /\ c.ok THEN c.list ELSE << >>,
     at |-> IF c.call = "createOrder" THEN c.at ELSE Instant(0),
     index |-> IF c.call = "createOrder" THEN c.req.ClientOrderIndex
               ELSE NoClientOrderIndex]

\* Wherever run b made the call run a made, it got the answer a got.
SameAnswers(a, b) ==
    \A i \in 1..Len(b.calls) :
        (i <= Len(a.calls) /\ a.calls[i].call = b.calls[i].call) =>
            Answer(a.calls[i]) = Answer(b.calls[i])

NextTwin ==
    \/ FirstRun
    \/ ProtectSteps("g1")
    \/ SecondRun
    \/ ProtectSteps("g2") /\ SameAnswers(w'["g1"], w'["g2"])
    \/ Tick

SpecTwin == Init /\ [][NextTwin]_vars

(***************************************************************************)
(* Vocabulary of the properties.                                           *)
(***************************************************************************)
MutatingCalls == {"cancelAllOrders", "updateLeverage", "createOrder"}

\* The places of the calls named `call` in a worker's log.
Issued(r, call) == {i \in 1..Len(r.calls) : r.calls[i].call = call}

Mutated(r) == \E i \in 1..Len(r.calls) : r.calls[i].call \in MutatingCalls

\* The errors of an unresolved market or price.
PreflightErrors == {"MarketNotFound", "PriceUnavailable", "PriceFetchFailed"}

\* The market index the exchange lists a symbol under, -1 when unlisted.
ListedMarket(symbol) ==
    LET coin == convertSymbolToLighterCoin(symbol) IN
    IF coin = "ETH" THEN 0 ELSE IF coin = "BTC" THEN 1 ELSE -1

\* C1: concurrent OpenLong and CloseLong on one symbol are serialized: the
\* second workflow issues no external call before the first has returned, so
\* two unfinished ones never both have calls behind them.
C1_Serialized ==
    \A p, q \in Procs :
        ( /\ p # q
          /\ Running(p) /\ Running(q)
          /\ w[p].op.name = "OpenLong" /\ w[q].op.name = "CloseLong"
          /\ w[p].op.symbol = w[q].op.symbol )
        => ~(w[p].calls # << >> /\ w[q].calls # << >>)

\* C2: an open issues createOrder only after its own leverage request
\* succeeded; when the leverage request failed the open has returned that
\* error and issued no createOrder.
C2_OrderAfterLeverage ==
    \A p \in Procs :
        w[p].op.name \in OpenOps =>
            /\ \A i \in Issued(w[p], "createOrder") :
                  \E j \in Issued(w[p], "updateLeverage") :
                      j < i /\ w[p].calls[j].ok
            /\ (\E j \in Issued(w[p], "updateLeverage") : ~w[p].calls[j].ok)
                  => /\ Issued(w[p], "createOrder") = {}
                     /\ w[p].result = "LeverageSetFailed"

\* C2 witness: an open has issued its createOrder.
C2_Witness ==
    \E p \in Procs :
        w[p].op.name \in OpenOps /\ Issued(w[p], "createOrder") # {}

\* C3 as claimed: a workflow that failed on an unresolved market or price has
\* issued no state-mutating call.
C3_NoCallBeforePreflight ==
    \A p \in Procs :
        ( /\ w[p].op.name \in OpenOps \cup CloseOps \cup ProtectOps
          /\ w[p].result \in PreflightErrors )
        => ~Mutated(w[p])

\* C3 amended: a close, stop-loss or take-profit that failed on an unresolved
\* market or price has issued no state-mutating call; an open that failed so
\* has issued no createOrder (its cancel, and before a price failure its
\* leverage request, are already out).
C3_PreflightByWorkflow ==
    \A p \in Procs :
        w[p].result \in PreflightErrors =>
            /\ w[p].op.name \in CloseOps \cup ProtectOps => ~Mutated(w[p])
            /\ w[p].op.name \in OpenOps =>
                  /\ Issued(w[p], "createOrder") = {}
                  /\ Issued(w[p], "cancelAllOrders") # {}

\* C3 witness: an open failed on the price with its leverage request out.
C3_Witness ==
    \E p \in Procs :
        /\ w[p].op.name \in OpenOps
        /\ w[p].result = "PriceUnavailable"
        /\ Issued(w[p], "updateLeverage") # {}

\* C4 as claimed: a returned close that handed its order to createOrder has a
\* cancelAllOrders after it, whether the submission succeeded or failed.
C4_CancelFollowsSubmission ==
    \A p \in Procs :
        (w[p].op.name \in CloseOps /\ w[p].result # "none") =>
            \A i \in Issued(w[p], "createOrder") :
                \E j \in Issued(w[p], "cancelAllOrders") : j > i

\* C4 amended: a returned close whose createOrder succeeded has a
\* cancelAllOrders after it; one whose createOrder failed has returned that
\* error with createOrder as its last call.
C4_CancelFollowsSuccess ==
    \A p \in Procs :
        (w[p].op.name \in CloseOps /\ w[p].result # "none") =>
            \A i \in Issued(w[p], "createOrder") :
                IF w[p].calls[i].ok
                THEN \E j \in Issued(w[p], "cancelAllOrders") : j > i
                ELSE /\ i = Len(w[p].calls)
                     /\ w[p].result = "OrderSubmissionFailed"

\* C4 witness: a close returned after a successful submission.
C4_Witness ==
    \E p \in Procs :
        /\ w[p].op.name \in CloseOps /\ w[p].result # "none"
        /\ \E i \in Issued(w[p], "createOrder") : w[p].calls[i].ok

\* The account record holds a position on the symbol and side of the close.
HoldsPosition(r) ==
    \E i \in 1..Len(r.account) :
        /\ r.account[i].Symbol \o "USDT" = r.op.symbol
        /\ ~FIsZero(ParseFloat(r.account[i].Position).value)
        /\ (r.account[i].Sign > 0) = (r.op.name = "CloseLong")

\* C5: a close of quantity 0 that read an account with no position on the
\* symbol and side has failed with NoPositionToClose and issued no
\* state-mutating call.
C5_NoPositionToClose ==
    \A p \in Procs :
        ( /\ w[p].op.name \in CloseOps /\ w[p].op.quantity.n = 0
          /\ \E i \in Issued(w[p], "getAccount") : w[p].calls[i].ok
          /\ ~HoldsPosition(w[p]) )
        => /\ w[p].result = "NoPositionToClose"
           /\ ~Mutated(w[p])

\* C5 witness: CloseLong(S, 0) failed on an account holding other positions.
C5_Witness ==
    \E p \in Procs :
        /\ w[p].op.name = "CloseLong" /\ w[p].op.quantity.n = 0
        /\ w[p].account # << >>
        /\ w[p].result = "NoPositionToClose"

\* The orders that may rest on the exchange, per market.
RestingOrders == [MarketIDs -> 0..MaxResting]

\* C6: the cancel transaction signed for a symbol, executed by the exchange,
\* leaves the orders resting on every other market unchanged.
C6_CancelOnlySymbol ==
    \A p \in Procs :
        \A i \in Issued(w[p], "cancelAllOrders") :
            w[p].calls[i].ok =>
                \A orders \in RestingOrders :
                    \A m \in MarketIDs :
                        m # ListedMarket(w[p].op.symbol) =>
                            ApplyCancelAll(orders, w[p].op.symbol)[m] = orders[m]

\* The coins of a list of order books.
ListedCoins(list) == {list[i].Symbol : i \in 1..Len(list)}

\* C7: after a successful reload the cache holds exactly the markets of the
\* fetched list.
C7_CacheReplaced ==
    \A p \in Procs :
        (At(p, "index") /\ w[p].sub = "reprobe") =>
            DOMAIN marketInfoCache = ListedCoins(w[p].lk.list)

\* C8: after a failed reload the lookup has returned an error and the cache
\* is the map it was when the reload started.
C8_FailedReloadKeepsCache ==
    \A p \in Procs :
        (w[p].lk.reloads = 1 /\ ~w[p].lk.reloadOk) =>
            /\ w[p].result = "MarketNotFound"
            /\ marketInfoCache = w[p].lk.before

\* C8 witness: a reload failed over a cache that held markets.
C8_Witness ==
    \E p \in Procs :
        /\ w[p].lk.reloads = 1 /\ ~w[p].lk.reloadOk
        /\ w[p].lk.before # EmptyCache

\* A goroutine is inside the store loop with the map neither as it was before
\* the reload nor as it is after it.
MidReload(p) ==
    /\ At(p, "index") /\ w[p].sub = "store"
    /\ marketInfoCache # w[p].lk.before
    /\ marketInfoCache # StoreAll(w[p].lk.before, w[p].lk.list)

\* The step a goroutine is about to take reads the map.
ReadsCache(q) ==
    \/ At(q, "index") /\ w[q].sub \in {"probe", "reprobe"}
    \/ At(q, "price") \/ At(q, "size") \/ At(q, "limit") \/ At(q, "trigger")

\* C9: no lookup or codec read sees the map of a reload that is under way.
C9_NoPartialRead ==
    [][ \A p, q \in Procs :
            (p # q /\ ReadsCache(q) /\ w'[q] # w[q]) => ~MidReload(p)
      ]_vars

\* getMarketIndex has returned, with the index or with its error.
LookupDone(r) == r.lk.found \/ (r.lk.probes > 0 /\ r.result = "MarketNotFound")

\* C10 as claimed: a hit makes no reload; a miss makes one reload and one
\* second probe and finds the market exactly when the cache now holds it.
C10_OneReloadOneReprobe ==
    \A p \in Procs :
        /\ w[p].lk.reloads <= 1
        /\ LookupDone(w[p]) =>
              IF w[p].lk.first
              THEN w[p].lk.reloads = 0 /\ w[p].lk.probes = 1 /\ w[p].lk.found
              ELSE /\ w[p].lk.reloads = 1
                   /\ w[p].lk.probes = 2
                   /\ w[p].lk.found = (Coin(p) \in DOMAIN marketInfoCache)

\* C10 amended: a hit makes no reload; a miss makes one reload and never a
\* second; when that reload failed the lookup has returned MarketNotFound
\* without a second probe, when it succeeded there was one second probe and
\* the market is found exactly when the cache then holds it.
C10_OneReload ==
    \A p \in Procs :
        /\ w[p].lk.reloads <= 1
        /\ LookupDone(w[p]) =>
              IF w[p].lk.first
              THEN w[p].lk.reloads = 0 /\ w[p].lk.probes = 1 /\ w[p].lk.found
              ELSE /\ w[p].lk.reloads = 1
                   /\ IF w[p].lk.reloadOk
                      THEN /\ w[p].lk.probes = 2
                           /\ w[p].lk.found = (Coin(p) \in DOMAIN marketInfoCache)
                           /\ ~w[p].lk.found => w[p].result = "MarketNotFound"
                      ELSE /\ w[p].lk.probes = 1
                           /\ ~w[p].lk.found
                           /\ w[p].result = "MarketNotFound"

\* C10 witness: a miss, one reload, and the second probe found the market.
C10_Witness ==
    \E p \in Procs :
        /\ ~w[p].lk.first /\ w[p].lk.reloads = 1 /\ w[p].lk.probes = 2
        /\ w[p].lk.found

\* The number of steps of an operation that are behind the worker.
StepsDone(r) == r.pc - 1

\* The errors the steps of an open after its cancel return.
OpenErrors ==
    {"MarketNotFound", "LeverageSetFailed", "PriceFetchFailed",
     "PriceUnavailable", "OrderSubmissionFailed"}

\* C11: the first external call of an open is cancelAllOrders, and a failed
\* one does not end the open: it goes on to the leverage step, whose request
\* is out once that step is behind it, it returns only with the error of a
\* later step, and when it returns success its order was submitted.
C11_CancelBestEffort ==
    \A p \in Procs :
        (w[p].op.name \in OpenOps /\ w[p].calls # << >>) =>
            /\ w[p].calls[1].call = "cancelAllOrders"
            /\ ~w[p].calls[1].ok =>
                  /\ StepsDone(w[p]) >= 1
                  /\ w[p].result \in {"none", "ok"} \cup OpenErrors
                  /\ StepsDone(w[p]) >= 3 =>
                        Issued(w[p], "updateLeverage") # {}
                  /\ w[p].result = "ok" =>
                        \E i \in Issued(w[p], "createOrder") :
                            w[p].calls[i].ok /\ i = Len(w[p].calls)

\* C11 witness: an open whose cancel failed returned success.
C11_Witness ==
    \E p \in Procs :
        /\ w[p].op.name \in OpenOps /\ w[p].result = "ok"
        /\ ~w[p].calls[1].ok

\* C12: an open whose leverage request succeeded and whose createOrder failed
\* has returned the submission error at once: the failed createOrder is its
\* last call, the only createOrder and the only updateLeverage, and the
\* cancel before them is the only cancelAllOrders.
C12_NoCompensation ==
    \A p \in Procs :
        w[p].op.name \in OpenOps =>
            \A i \in Issued(w[p], "createOrder") :
                ~w[p].calls[i].ok =>
                    /\ w[p].result = "OrderSubmissionFailed"
                    /\ i = Len(w[p].calls)
                    /\ Issued(w[p], "createOrder") = {i}
                    /\ \E j \in 1..(i - 1) :
                          /\ Issued(w[p], "updateLeverage") = {j}
                          /\ w[p].calls[j].ok
                    /\ Issued(w[p], "cancelAllOrders") = {1}

\* C12 witness: an open returned the submission error after its leverage
\* request had succeeded.
C12_Witness ==
    \E p \in Procs :
        /\ w[p].op.name \in OpenOps /\ w[p].result = "OrderSubmissionFailed"
        /\ \E j \in Issued(w[p], "updateLeverage") : w[p].calls[j].ok

\* C13: within one invocation each state-mutating call is issued at most
\* once, so none follows a failed one of its kind.
C13_AtMostOnce ==
    \A p \in Procs :
        \A call \in MutatingCalls :
            /\ Cardinality(Issued(w[p], call)) <= 1
            /\ \A i \in Issued(w[p], call) :
                  ~w[p].calls[i].ok =>
                      \A j \in Issued(w[p], call) : j <= i

\* C13 witness: an invocation has issued all three state-mutating calls.
C13_Witness ==
    \E p \in Procs :
        \A call \in MutatingCalls : Issued(w[p], call) # {}

\* C14: every order of an open is a limit order, not reduce-only, immediate
\* or cancel, with no trigger price and no expiry; OpenLong's is a bid,
\* OpenShort's an ask.
C14_OpenOrderFields ==
    \A p \in Procs :
        w[p].op.name \in OpenOps =>
            \A i \in Issued(w[p], "createOrder") :
                LET req == w[p].calls[i].req IN
                /\ req.Type = "LimitOrder"
                /\ req.ReduceOnly = 0
                /\ req.TimeInForce = "ImmediateOrCancel"
                /\ req.TriggerPrice = NilOrderTriggerPrice
                /\ req.OrderExpiry = NilOrderExpiry
                /\ w[p].op.name = "OpenLong" => req.IsAsk = 0
                /\ w[p].op.name = "OpenShort" => req.IsAsk = 1

\* C14 witness: an OpenShort has submitted its order.
C14_Witness ==
    \E p \in Procs :
        /\ w[p].op.name = "OpenShort"
        /\ \E i \in Issued(w[p], "createOrder") : w[p].calls[i].ok

\* C15: every order of a close is reduce-only and immediate or cancel, on
\* the side opposite to the position: CloseLong's is an ask, CloseShort's a
\* bid.
C15_CloseOrderFields ==
    \A p \in Procs :
        w[p].op.name \in CloseOps =>
            \A i \in Issued(w[p], "createOrder") :
                LET req == w[p].calls[i].req IN
                /\ req.ReduceOnly = 1
                /\ req.TimeInForce = "ImmediateOrCancel"
                /\ w[p].op.name = "CloseLong" => req.IsAsk = 1
                /\ w[p].op.name = "CloseShort" => req.IsAsk = 0

\* C15 witness: a CloseShort of the whole position has submitted its order.
C15_Witness ==
    \E p \in Procs :
        /\ w[p].op.name = "CloseShort" /\ w[p].op.quantity.n = 0
        /\ \E i \in Issued(w[p], "createOrder") : w[p].calls[i].ok

\* The operations whose order buys, and those whose order sells.
BidOps == {"OpenLong", "CloseShort"}
AskOps == {"OpenShort", "CloseLong"}

\* C16: the limit price of an open or a close is the encoding of the fetched
\* price times 1.01 when the order is a bid and times 0.99 when it is an ask;
\* from a price of 3000 OpenLong encodes 3030 at the price decimals of the
\* market.
C16_AdverseOffset ==
    \A p \in Procs :
        \A i \in Issued(w[p], "createOrder") :
            LET req == w[p].calls[i].req
                P == w[p].price
            IN
            /\ w[p].op.name \in BidOps =>
                  /\ req.IsAsk = 0
                  /\ req.Price \in convertToLighterPrice(marketInfoCache,
                                     w[p].op.symbol, FMul(P, F64(Dec(101, 2))))
            /\ w[p].op.name \in AskOps =>
                  /\ req.IsAsk = 1
                  /\ req.Price \in convertToLighterPrice(marketInfoCache,
                                     w[p].op.symbol, FMul(P, F64(Dec(99, 2))))
            /\ (w[p].op.name = "OpenLong" /\ P = F64(Dec(3000, 0))) =>
                  req.Price =
                      TextOf(3030 * Pow10(marketInfoCache[Coin(p)].SupportedPriceDecimals))

\* C16 witness: an OpenLong and a price of 3000 from the middle of the book.
C16_Witness ==
    \E p \in Procs :
        /\ w[p].op.name = "OpenLong" /\ w[p].price = F64(Dec(3000, 0))
        /\ \E i \in Issued(w[p], "createOrder") :
              w[p].calls[i].req.Price = "303000"

\* C17: every updateLeverage request, of SetLeverage and of the leverage step
\* of an open, carries 10000 div leverage as its initial margin fraction (for
\* a leverage of 1 or more; the others are the matter of C37), the
\* cross-margin mode and the market index of the symbol; leverage 10 gives
\* 1000.
C17_LeverageRequest ==
    \A p \in Procs :
        \A i \in Issued(w[p], "updateLeverage") :
            LET req == w[p].calls[i].req IN
            /\ w[p].op.name \in OpenOps \cup {"SetLeverage"}
            /\ w[p].op.leverage > 0 =>
                  req.InitialMarginFraction = 10000 \div w[p].op.leverage
            /\ req.MarginMode = "CrossMargin"
            /\ req.MarketIndex = ListedMarket(w[p].op.symbol)
            /\ w[p].op.leverage = 10 => req.InitialMarginFraction = 1000

\* C17 witness: SetLeverage with leverage 3 on the second market has sent the
\* rounded-down fraction 3333.
C17_Witness ==
    \E p \in Procs :
        /\ w[p].op.name = "SetLeverage" /\ w[p].op.leverage = 3
        /\ \E i \in Issued(w[p], "updateLeverage") :
              /\ w[p].calls[i].req.InitialMarginFraction = 3333
              /\ w[p].calls[i].req.MarketIndex = 1

\* C18: the order of SetStopLoss and of SetTakeProfit is on the side opposite
\* to the position side given: a sell (isAsk = 1) for "LONG", a buy
\* (isAsk = 0) for "SHORT".
C18_ProtectiveSide ==
    \A p \in Procs :
        w[p].op.name \in ProtectOps =>
            \A i \in Issued(w[p], "createOrder") :
                /\ w[p].op.positionSide = "LONG" => w[p].calls[i].req.IsAsk = 1
                /\ w[p].op.positionSide = "SHORT" => w[p].calls[i].req.IsAsk = 0

\* C18 witness: a take-profit for a short position has been submitted.
C18_Witness ==
    \E p \in Procs :
        /\ w[p].op.name = "SetTakeProfit" /\ w[p].op.positionSide = "SHORT"
        /\ \E i \in Issued(w[p], "createOrder") : w[p].calls[i].ok

\* C19: every order of SetStopLoss and of SetTakeProfit is reduce-only, its
\* trigger price and its limit price are both the encoding of the price
\* given, and it expires 30 days after the instant the call built it.
C19_ProtectiveOrderFields ==
    \A p \in Procs :
        w[p].op.name \in ProtectOps =>
            \A i \in Issued(w[p], "createOrder") :
                LET req == w[p].calls[i].req
                    at == w[p].calls[i].at
                IN
                /\ req.ReduceOnly = 1
                /\ req.TriggerPrice = req.Price
                /\ req.Price \in convertToLighterPrice(marketInfoCache,
                                   w[p].op.symbol, w[p].op.price)
                /\ req.Price # NilOrderTriggerPrice
                /\ req.OrderExpiry = [day |-> at.day + 30, ms |-> at.ms]

\* C19 witness: a stop-loss built after the clock had moved on, at the price
\* decimals of the first market.
C19_Witness ==
    \E p \in Procs :
        /\ w[p].op.name = "SetStopLoss"
        /\ \E i \in Issued(w[p], "createOrder") :
              /\ w[p].calls[i].at.ms > 0
              /\ w[p].calls[i].req.TriggerPrice = "290000"

\* A logged call with the order-type tag of its request blanked, in the
\* request and in the hash the signer gave for it.
Untagged(c) ==
    IF c.call = "createOrder"
    THEN [c EXCEPT !.req.Type = "order",
                   !.txInfo.SignedHash.hashOf.Type = "order"]
    ELSE c

\* C20: SetTakeProfit, run with the arguments, the cache and the answers of a
\* run of SetStopLoss, makes the same calls in the same order with requests
\* equal in every field but the order type, which is stopLoss in the one and
\* takeProfit in the other, and returns the same outcome.
C20_SameButOrderType ==
    LET a == w["g1"]
        b == w["g2"]
    IN (a.op.name = "SetStopLoss" /\ b.op.name = "SetTakeProfit") =>
          /\ Len(b.calls) <= Len(a.calls)
          /\ \A i \in 1..Len(b.calls) :
                /\ Untagged(b.calls[i]) = Untagged(a.calls[i])
                /\ b.calls[i].call = "createOrder" =>
                      /\ a.calls[i].req.Type = "StopLossOrder"
                      /\ b.calls[i].req.Type = "TakeProfitOrder"
          /\ b.result # "none" =>
                /\ b.result = a.result
                /\ Len(b.calls) = Len(a.calls)
                /\ b.lk = a.lk

\* C20 witness: both runs reloaded the cache, submitted their order and
\* returned success.
C20_Witness ==
    /\ w["g2"].op.name = "SetTakeProfit" /\ w["g2"].result = "ok"
    /\ Len(w["g2"].calls) = 2
    /\ w["g2"].calls[2].ok

\* floor(x * 10^decimals) for a decimal x that is not negative, in whole
\* numbers.
FloorScaled(x, decimals) ==
    IF x.d <= decimals
    THEN IntText(1, BigMul(BigOfInt(x.n), Pow10Big(decimals - x.d)))
    ELSE IntText(1, BigDivMod(BigOfInt(x.n), Pow10Big(x.d - decimals)).q)

\* An encoder called on its own has returned, for a symbol in the cache.
Encoded(p, name) ==
    /\ w[p].op.name = name /\ w[p].result = "ok"
    /\ Coin(p) \in DOMAIN marketInfoCache

\* C21: for a symbol in the cache and an input that is not negative the size
\* encoder returns floor(x * 10^sizeDecimals) and the price encoder
\* floor(x * 10^priceDecimals).
C21_FloorOfScaled ==
    \A p \in Procs :
        /\ (Encoded(p, "convertToBaseAmount") /\ w[p].op.quantity.n >= 0) =>
              w[p].baseAmount =
                  FloorScaled(w[p].op.quantity,
                              marketInfoCache[Coin(p)].SupportedSizeDecimals)
        /\ (Encoded(p, "convertToLighterPrice") /\ w[p].op.price.n >= 0) =>
              w[p].lighterPrice =
                  FloorScaled(w[p].op.price,
                              marketInfoCache[Coin(p)].SupportedPriceDecimals)

\* C22: a size on the decimal grid of the market, x / 10^sizeDecimals for a
\* whole x from 0 up, is encoded to x again.
C22_RoundTrip ==
    \A p \in Procs :
        LET q == w[p].op.quantity IN
        ( /\ Encoded(p, "convertToBaseAmount")
          /\ q.n >= 0 /\ q.d >= 0
          /\ q.d <= marketInfoCache[Coin(p)].SupportedSizeDecimals )
        => w[p].baseAmount =
               FloorScaled(q, marketInfoCache[Coin(p)].SupportedSizeDecimals)

\* An encoder called on its own has returned, for a symbol not in the cache.
EncodedUncached(p, name) ==
    /\ w[p].op.name = name /\ w[p].result # "none"
    /\ Coin(p) \notin DOMAIN marketInfoCache

\* C23: for a symbol whose coin is not in the cache both encoders return what
\* the encoding at 4 decimals returns (25000 for 2.5), with no error, no
\* request for the order books and the cache left as it was.
C23_FallbackFourDecimals ==
    \A p \in Procs :
        /\ EncodedUncached(p, "convertToBaseAmount") =>
              /\ w[p].result = "ok"
              /\ w[p].baseAmount \in Int64(Scaled(w[p].op.quantity, 4))
              /\ w[p].op.quantity = Dec(25, 1) => w[p].baseAmount = "25000"
              /\ w[p].calls = << >> /\ w[p].lk.reloads = 0
        /\ EncodedUncached(p, "convertToLighterPrice") =>
              /\ w[p].result = "ok"
              /\ w[p].lighterPrice \in Uint32(Scaled(w[p].op.price, 4))
              /\ w[p].op.price = Dec(25, 1) => w[p].lighterPrice = "25000"
              /\ w[p].calls = << >> /\ w[p].lk.reloads = 0

\* C23 witness: the price 1.23456 encoded for a coin that is not listed.
C23_Witness ==
    \E p \in Procs :
        /\ EncodedUncached(p, "convertToLighterPrice")
        /\ w[p].op.symbol = "DOGEUSDT"
        /\ w[p].lighterPrice = "12345"

\* A GetPositions call that returned a list: the positions of the account it
\* read, those among them whose quantity is not 0, and the quantity of one.
Listed(p) == w[p].op.name = "GetPositions" /\ w[p].result = "ok"
RawPositions(p) ==
    LET accounts == w[p].calls[Len(w[p].calls)].accounts IN
    IF accounts = << >> THEN << >> ELSE accounts[1].Positions
RawQuantity(pos) == ParseFloat(pos.Position).value
HeldPositions(p) ==
    SelectSeq(RawPositions(p), LAMBDA pos : ~FIsZero(RawQuantity(pos)))

\* C24 as claimed: a returned position is long with the raw quantity as its
\* amount when the raw quantity is positive, short with its absolute value
\* when it is negative, and every amount is above 0.
C24_SideFromQuantity ==
    \A p \in Procs :
        Listed(p) =>
            /\ Len(w[p].out) = Len(HeldPositions(p))
            /\ \A i \in 1..Len(w[p].out) :
                  LET q == RawQuantity(HeldPositions(p)[i]) IN
                  /\ FPositive(q) => /\ w[p].out[i].side = "long"
                                     /\ w[p].out[i].positionAmt = q
                  /\ ~FPositive(q) => /\ w[p].out[i].side = "short"
                                      /\ w[p].out[i].positionAmt = absFloat64(q)
                  /\ FPositive(w[p].out[i].positionAmt)

\* C24 amended: a returned position is long with the raw quantity as it is
\* for its amount when the Sign of the record is above 0, and short with the
\* absolute value of the raw quantity, which is above 0, otherwise; no amount
\* is 0.
C24_SideFromSign ==
    \A p \in Procs :
        Listed(p) =>
            /\ Len(w[p].out) = Len(HeldPositions(p))
            /\ \A i \in 1..Len(w[p].out) :
                  LET pos == HeldPositions(p)[i]
                      q == RawQuantity(pos)
                  IN
                  /\ pos.Sign > 0 => /\ w[p].out[i].side = "long"
                                     /\ w[p].out[i].positionAmt = q
                  /\ pos.Sign <= 0 => /\ w[p].out[i].side = "short"
                                      /\ w[p].out[i].positionAmt = absFloat64(q)
                                      /\ FPositive(w[p].out[i].positionAmt)
                  /\ ~FIsZero(w[p].out[i].positionAmt)

\* C24 witness: a record of Sign -1 and quantity 1.0 returned as a short of 1.
C24_Witness ==
    \E p \in Procs :
        /\ Listed(p)
        /\ \E i \in 1..Len(w[p].out) :
              /\ HeldPositions(p)[i].Sign = -1
              /\ HeldPositions(p)[i].Position = "1.0"
              /\ w[p].out[i].side = "short"
              /\ w[p].out[i].positionAmt = F64(Dec(1, 0))

\* C25: the positions returned are the records whose quantity is not 0, in
\* their order: none has amount 0, and the mark price of each is its position
\* value divided by the absolute value of its quantity, which is not 0.
C25_NoZeroPosition ==
    \A p \in Procs :
        Listed(p) =>
            /\ Len(w[p].out) = Len(HeldPositions(p))
            /\ \A i \in 1..Len(w[p].out) :
                  LET pos == HeldPositions(p)[i] IN
                  /\ w[p].out[i].symbol = pos.Symbol \o "USDT"
                  /\ ~FIsZero(w[p].out[i].positionAmt)
                  /\ ~FIsZero(absFloat64(RawQuantity(pos)))
                  /\ w[p].out[i].markPrice =
                         FDiv(ParseFloat(pos.PositionValue).value,
                              absFloat64(RawQuantity(pos)))

\* C25 witness: of an ETH record of quantity 0 and a BTC record of quantity
\* -1.0 and value 60000, BTC alone is returned, at the mark price 60000.
C25_Witness ==
    \E p \in Procs :
        /\ Listed(p)
        /\ Len(RawPositions(p)) = 2 /\ RawPositions(p)[1].Position = "0"
        /\ Len(w[p].out) = 1
        /\ w[p].out[1].symbol = "BTCUSDT"
        /\ w[p].out[1].markPrice = F64(Dec(60000, 0))

\* C26: the leverage of a returned position is 100 / IMF when the initial
\* margin fraction parses to a number above 0 (10 gives 10, 5 gives 20);
\* when it is 0, negative or no number the position is returned all the same
\* and its leverage is the 0 of a variable never assigned.
C26_LeverageFromFraction ==
    \A p \in Procs :
        Listed(p) =>
            /\ Len(w[p].out) = Len(HeldPositions(p))
            /\ \A i \in 1..Len(w[p].out) :
                  LET imf == ParseFloat(HeldPositions(p)[i].InitialMarginFraction) IN
                  /\ (~imf.err /\ FPositive(imf.value)) =>
                        w[p].out[i].leverage = FDiv(F64(Dec(100, 0)), imf.value)
                  /\ (imf.err \/ ~FPositive(imf.value)) =>
                        w[p].out[i].leverage = FZero
                  /\ HeldPositions(p)[i].InitialMarginFraction = "5" =>
                        w[p].out[i].leverage = F64(Dec(20, 0))

\* C26 witness: two positions returned, the first with a fraction that is no
\* number, the second with a negative fraction, both with leverage 0.
C26_Witness ==
    \E p \in Procs :
        /\ Listed(p)
        /\ Len(w[p].out) = 2
        /\ HeldPositions(p)[1].InitialMarginFraction = "abc"
        /\ HeldPositions(p)[2].InitialMarginFraction = "-4"
        /\ w[p].out[1].leverage = FZero /\ w[p].out[2].leverage = FZero

\* A GetBalance call that returned a balance, and the account it read.
Balanced(p) == w[p].op.name = "GetBalance" /\ w[p].result = "ok"
AccountRead(p) == w[p].calls[Len(w[p].calls)].accounts[1]

RECURSIVE PnlSum(_, _)
\* The unrealized profit of the first n positions, added one by one.
PnlSum(positions, n) ==
    IF n = 0 THEN FZero
    ELSE FAdd(PnlSum(positions, n - 1),
              ParseFloat(positions[n].UnrealizedPnl).value)

\* The wallet balance, profit and available balance of a returned balance are
\* the collateral less the summed profit, that sum, and the available balance
\* of the account.
BalanceFields(p) ==
    LET account == AccountRead(p)
        sum == PnlSum(account.Positions, Len(account.Positions))
    IN /\ w[p].out.totalUnrealizedProfit = sum
       /\ w[p].out.totalWalletBalance =
              FSub(ParseFloat(account.Collateral).value, sum)
       /\ w[p].out.availableBalance =
              ParseFloat(account.AvailableBalance).value

\* The difference of the float64 a and b is a float64 with no rounding.
ExactDifference(a, b) == BitLen(RealAdd(a, FNeg(b)).m) <= 53

\* C27 as claimed: wallet balance = collateral - summed unrealized profit,
\* unrealized profit = that sum, available balance as reported, and wallet
\* balance + unrealized profit = collateral.
C27_BalanceAddsUp ==
    \A p \in Procs :
        Balanced(p) =>
            /\ BalanceFields(p)
            /\ FAdd(w[p].out.totalWalletBalance, w[p].out.totalUnrealizedProfit)
                   = ParseFloat(AccountRead(p).Collateral).value

\* C27 amended: wallet balance = collateral - summed unrealized profit in
\* float64, unrealized profit = that sum, available balance as reported; and
\* wallet balance + unrealized profit = collateral when the difference needed
\* no rounding.
C27_BalanceFromCollateral ==
    \A p \in Procs :
        Balanced(p) =>
            /\ BalanceFields(p)
            /\ ExactDifference(ParseFloat(AccountRead(p).Collateral).value,
                               w[p].out.totalUnrealizedProfit)
                  => FAdd(w[p].out.totalWalletBalance,
                          w[p].out.totalUnrealizedProfit)
                         = ParseFloat(AccountRead(p).Collateral).value

\* C27 witness: collateral 250 and one position with a profit of 12 give the
\* wallet balance 238.
C27_Witness ==
    \E p \in Procs :
        /\ Balanced(p)
        /\ AccountRead(p).Collateral = "250"
        /\ w[p].out.totalUnrealizedProfit = F64(Dec(12, 0))
        /\ w[p].out.totalWalletBalance = F64(Dec(238, 0))

\* An open or a close that returned without error.
Traded(p) == w[p].op.name \in OpenOps \cup CloseOps /\ w[p].result = "ok"

\* What an open or a close returns besides the status: the symbol passed in,
\* the client order index of the order it submitted and the hash the signer
\* gave for that order.
OutcomeOfOrder(p) ==
    /\ w[p].out.symbol = w[p].op.symbol
    /\ \E i \in Issued(w[p], "createOrder") :
          /\ w[p].calls[i].ok
          /\ w[p].out.orderId = w[p].calls[i].req.ClientOrderIndex
          /\ w[p].out.hash = w[p].calls[i].txInfo.SignedHash

\* C28 as claimed: every successful open or close returns the status
\* "submitted" with the symbol, the client order index and the signer's
\* handle of its order.
C28_OutcomeSubmitted ==
    \A p \in Procs :
        Traded(p) => w[p].out.status = "submitted" /\ OutcomeOfOrder(p)

\* C28 amended: every successful open or close returns the status "PENDING"
\* with the symbol, the client order index and the signer's hash of its
\* order.
C28_OutcomePending ==
    \A p \in Procs :
        Traded(p) => w[p].out.status = "PENDING" /\ OutcomeOfOrder(p)

\* C28 witness: a CloseLong returned the hash of a reduce-only order and an
\* order index taken after the clock moved.
C28_Witness ==
    \E p \in Procs :
        /\ Traded(p) /\ w[p].op.name = "CloseLong"
        /\ w[p].out.hash.hashOf.ReduceOnly = 1
        /\ w[p].out.hash.hashOf.ClientOrderIndex = w[p].out.orderId
        /\ w[p].out.orderId # NoClientOrderIndex
        /\ w[p].out.orderId # UnixMilli(Instant(0))

\* A GetMarketPrice call that got an answer to its request, and the answer.
Quoted(p) ==
    /\ w[p].op.name = "GetMarketPrice" /\ w[p].result # "none"
    /\ \E i \in Issued(w[p], "getOrderBookDetail") : w[p].calls[i].ok
Detail(p) == w[p].calls[Len(w[p].calls)].detail

\* The number a text of the reply gives, 0 when it gives none.
Number(text) == ParseFloat(text).value
Provided(text) == text # Absent /\ ~ParseFloat(text).err

\* C29: GetMarketPrice returns the mark price when the reply has one that
\* reads as a number; otherwise, when best ask and best bid are both above 0,
\* their middle (ask 3001 and bid 2999 give 3000); otherwise it fails with
\* PriceUnavailable.
C29_MarkThenMid ==
    \A p \in Procs :
        Quoted(p) =>
            LET detail == Detail(p)
                twoSided == FPositive(Number(detail.ask)) /\ FPositive(Number(detail.bid))
            IN
            /\ Provided(detail.mark) =>
                  w[p].result = "ok" /\ w[p].out = Number(detail.mark)
            /\ (~Provided(detail.mark) /\ twoSided) =>
                  /\ w[p].result = "ok"
                  /\ w[p].out = FDiv(FAdd(Number(detail.ask), Number(detail.bid)),
                                     F64(Dec(2, 0)))
                  /\ (detail.ask = "3001" /\ detail.bid = "2999") =>
                        w[p].out = F64(Dec(3000, 0))
            /\ (~Provided(detail.mark) /\ ~twoSided) =>
                  w[p].result = "PriceUnavailable"

\* C29 witness: a reply whose mark price is no number and whose book has both
\* sides gave the middle of the book.
C29_Witness ==
    \E p \in Procs :
        /\ Quoted(p) /\ w[p].result = "ok"
        /\ Detail(p).mark = "abc"
        /\ w[p].out = FDiv(FAdd(F64(Dec(30005, 1)), F64(Dec(29996, 1))),
                           F64(Dec(2, 0)))

\* ---------------------------------------------------------------------
\* config: RSA key pairs, RSAEncrypt, RSADecrypt, HybridDecrypt, SmartDecrypt.
\* A Go string and a []byte are both a sequence of bytes (0..255); the
\* conversions string(b) and []byte(s) copy the bytes.

RECURSIVE Xor(_, _)
\* The exclusive or of two bytes, bit by bit.
Xor(a, b) ==
    IF a = 0 /\ b = 0 THEN 0
    ELSE (((a % 2) + (b % 2)) % 2) + 2 * Xor(a \div 2, b \div 2)

(***************************************************************************)
(* The hash of the model, in place of SHA-256 and of the GHASH of AES-GCM: *)
(* FNV-1a on a state of 16 bits whose two bytes change places after every  *)
(* byte read.  One step is a bijection of the state and the byte read      *)
(* changes the state, so the hash depends on every byte and on its place.  *)
(* Lanes, with a prime and a basis each, give hashes that do not depend on *)
(* one another.                                                            *)
(***************************************************************************)
HashPrime(lane) == 403 + 256 * lane
HashBasis(lane) == (40389 + 7919 * lane) % 65536

\* A state of 16 bits with its two bytes exchanged.
Swapped(t) == (t % 256) * 256 + (t \div 256)

\* The state after one more byte.
HashStep(state, prime, byte) == Swapped((Xor(state, byte) * prime) % 65536)

RECURSIVE HashFold(_, _, _, _, _)
\* The state after the bytes lo..hi, taken in two halves.
HashFold(state, prime, bytes, lo, hi) ==
    IF state < 0 \/ lo > hi THEN state
    ELSE IF lo = hi THEN HashStep(state, prime, bytes[lo])
    ELSE HashFold(HashFold(state, prime, bytes, lo, (lo + hi) \div 2),
                  prime, bytes, (lo + hi) \div 2 + 1, hi)

\* The two bytes of a state.
StateBytes(state) == <<state \div 256, state % 256>>

\* The state after a text, stepped twice more so that its last bytes reach
\* both bytes of the state.
Mixed(state, prime) == HashStep(HashStep(state, prime, 255), prime, 255)

\* The hash of a lane: two bytes.
Sum(lane, bytes) ==
    StateBytes(Mixed(HashFold(HashBasis(lane), HashPrime(lane), bytes, 1,
                              Len(bytes)),
                     HashPrime(lane)))

\* The bytes of a text of ASCII letters, digits and spaces.
Alphanumerics == "0123456789ABCDEFGHIJKLMNOPQRSTUVWXYZabcdefghijklmnopqrstuvwxyz"
CodeOf(char) ==
    IF char = " " THEN 32
    ELSE LET j == CHOOSE i \in 1..Len(Alphanumerics) : SubSeq(Alphanumerics, i, i) = char
         IN IF j <= 10 THEN 47 + j ELSE IF j <= 36 THEN 54 + j ELSE 60 + j
Bytes(text) == [i \in 1..Len(text) |-> CodeOf(SubSeq(text, i, i))]

\* base64.StdEncoding: the letter of a 6-bit value, the padding letter '=',
\* and the 6-bit value of a letter (-1 for a byte outside the alphabet).
Letter(v) ==
    IF v < 26 THEN 65 + v
    ELSE IF v < 52 THEN 97 + (v - 26)
    ELSE IF v < 62 THEN 48 + (v - 52)
    ELSE IF v = 62 THEN 43 ELSE 47
PadLetter == 61
Sextet(c) ==
    IF c >= 65 /\ c <= 90 THEN c - 65
    ELSE IF c >= 97 /\ c <= 122 THEN c - 97 + 26
    ELSE IF c >= 48 /\ c <= 57 THEN c - 48 + 52
    ELSE IF c = 43 THEN 62
    ELSE IF c = 47 THEN 63 ELSE -1

\* base64.StdEncoding.EncodeToString: three bytes give four letters; a last
\* group of one or two bytes gives two or three letters and is padded.
EncodeToString(src) ==
    LET n == Len(src)
        groups == (n + 2) \div 3
        ByteAt(j) == IF j <= n THEN src[j] ELSE 0
        Group(g) == ByteAt(3 * g - 2) * 65536 + ByteAt(3 * g - 1) * 256 + ByteAt(3 * g)
        OutAt(i) ==
            LET g == (i - 1) \div 4 + 1
                k == (i - 1) % 4
                given == IF 3 * g <= n THEN 3 ELSE n - 3 * (g - 1)
            IN IF k > given THEN PadLetter
               ELSE Letter((Group(g) \div Pow2(6 * (3 - k))) % 64)
    IN [i \in 1..(4 * groups) |-> OutAt(i)]

\* base64.StdEncoding.DecodeString: line breaks are skipped; the rest is
\* groups of four letters, the last one padded with one or two '='; anything
\* else is corrupt input.
DecodeString(s) ==
    LET t == SelectSeq(s, LAMBDA c : c # 10 /\ c # 13)
        n == Len(t)
        pad == IF n >= 1 /\ t[n] = PadLetter
               THEN (IF n >= 2 /\ t[n - 1] = PadLetter THEN 2 ELSE 1)
               ELSE 0
        ValueAt(j) == IF j > n - pad THEN 0 ELSE Sextet(t[j])
        Group(g) == ValueAt(4 * g - 3) * 262144 + ValueAt(4 * g - 2) * 4096
                        + ValueAt(4 * g - 1) * 64 + ValueAt(4 * g)
        OutAt(i) ==
            LET g == (i - 1) \div 3 + 1
                k == (i - 1) % 3
            IN (Group(g) \div Pow2(8 * (2 - k))) % 256
    IN IF n % 4 # 0 \/ pad > n \/ \E j \in 1..(n - pad) : Sextet(t[j]) = -1
       THEN [err |-> "CorruptInput", bytes |-> << >>]
       ELSE [err |-> "", bytes |-> [i \in 1..(3 * (n \div 4) - pad) |-> OutAt(i)]]

\* What a function of the package returns: an error ("" for nil) and a text.
Returned(text) == [err |-> "", text |-> text]
Failed(err) == [err |-> err, text |-> << >>]

(***************************************************************************)
(* The library's RSA-OAEP, at a reduced size and with the layout of the    *)
(* original: a modulus of KeyBytes bytes (256 for the 2048-bit keys of     *)
(* GenerateRSAKeyPair), a hash of HashBytes bytes (32 for SHA-256), the    *)
(* encoded message 00 || maskedSeed || maskedDB with                       *)
(* DB = lHash || 00.. || 01 || message, the masks of MGF1, and a keyed     *)
(* permutation of the encoded message: x -> x^E mod N on every byte,       *)
(* undone by x -> x^D.                                                     *)
(***************************************************************************)
KeyBytes == 38
HashBytes == 2
MaxMessage == KeyBytes - 2 * HashBytes - 2

\* sha256.New() of the model, and the hash of the empty label.
Hash(bytes) == Sum(0, bytes)
LabelHash == Hash(<< >>)

\* rsa.GenerateKey: the keys it may return.
RsaKeys == {[N |-> 257, E |-> 3, D |-> 171], [N |-> 257, E |-> 5, D |-> 205]}
PublicOf(key) == [N |-> key.N, E |-> key.E]

\* rand.Reader: the seeds it may give an encryption, of HashBytes bytes.
Seeds == {[i \in 1..HashBytes |-> (s * i) % 256] : s \in {0, 77, 200}}

RECURSIVE ModExp(_, _, _)
\* b^e mod n by squaring.
ModExp(b, e, n) ==
    IF e = 0 THEN 1
    ELSE IF e % 2 = 0 THEN ModExp((b * b) % n, e \div 2, n)
    ELSE (b * ModExp((b * b) % n, e \div 2, n)) % n

\* The bytes of a mask from the hashes of its blocks.
MaskBytes(blocks, n) ==
    [i \in 1..n |-> blocks[(i - 1) \div HashBytes][((i - 1) % HashBytes) + 1]]

\* MGF1, the mask generation function: the first n bytes of the hashes of
\* the seed followed by a counter of four bytes, 0, 1, 2, ...
mgf1(seed, n) ==
    MaskBytes([c \in 0..((n - 1) \div HashBytes) |->
                  Hash(seed \o <<0, 0, c \div 256, c % 256>>)], n)

\* The exclusive or of two texts of one length, byte by byte.
XorBytes(a, b) == [i \in 1..Len(a) |-> Xor(a[i], b[i])]

\* The encoded message of a seed and its masked data block.
EncodedMessage(seed, maskedDB) ==
    <<0>> \o XorBytes(seed, mgf1(maskedDB, HashBytes)) \o maskedDB

\* The keyed permutation of an encoded message.
Permuted(em, exponent, modulus) ==
    [i \in 1..Len(em) |-> ModExp(em[i], exponent, modulus)]

\* rsa.EncryptOAEP(sha256.New(), rand.Reader, publicKey, msg, nil).
EncryptOAEP(seed, pub, msg) ==
    IF Len(msg) > MaxMessage THEN [err |-> "MessageTooLong", bytes |-> << >>]
    ELSE [err |-> "",
          bytes |-> Permuted(
              EncodedMessage(seed,
                  XorBytes(LabelHash \o [i \in 1..(MaxMessage - Len(msg)) |-> 0]
                               \o <<1>> \o msg,
                           mgf1(seed, KeyBytes - HashBytes - 1))),
              pub.E, pub.N)]

\* The message of a data block: what follows the label hash, zeros and a 1.
Unpadded(db, rest, marks) ==
    IF SubSeq(db, 1, HashBytes) = LabelHash /\ marks # << >> /\ rest[marks[1]] = 1
    THEN [err |-> "", bytes |-> SubSeq(rest, marks[1] + 1, Len(rest))]
    ELSE [err |-> "Decryption", bytes |-> << >>]

\* The data block unmasked.
Unmasked(db) ==
    Unpadded(db, SubSeq(db, HashBytes + 1, Len(db)),
             SelectSeq([i \in 1..(Len(db) - HashBytes) |-> i],
                       LAMBDA i : db[HashBytes + i] # 0))

\* The data block of a masked data block and its seed.
UnmaskedBy(seed, maskedDB) ==
    Unmasked(XorBytes(maskedDB, mgf1(seed, Len(maskedDB))))

\* The message of an encoded message.
DecodedMessage(em) ==
    IF em[1] # 0 THEN [err |-> "Decryption", bytes |-> << >>]
    ELSE UnmaskedBy(XorBytes(SubSeq(em, 2, 1 + HashBytes),
                             mgf1(SubSeq(em, 2 + HashBytes, KeyBytes), HashBytes)),
                    SubSeq(em, 2 + HashBytes, KeyBytes))

\* rsa.DecryptOAEP(sha256.New(), rand.Reader, privateKey, ciphertext, nil):
\* one error for every failure.
DecryptOAEP(priv, ciphertext) ==
    IF Len(ciphertext) > KeyBytes \/ \E i \in 1..Len(ciphertext) : ciphertext[i] >= priv.N
    THEN [err |-> "Decryption", bytes |-> << >>]
    ELSE DecodedMessage(Permuted([i \in 1..(KeyBytes - Len(ciphertext)) |-> 0] \o ciphertext,
                          priv.D, priv.N))

\* The PEM texts of a key pair: the private key as PKCS#1 in a block
\* "RSA PRIVATE KEY", the public key as PKIX in a block "PUBLIC KEY"; and a
\* text with no PEM block in it.
PrivatePem(key) == [Type |-> "RSA PRIVATE KEY", Form |-> "PKCS1", Key |-> key]
PublicPem(key) == [Type |-> "PUBLIC KEY", Form |-> "PKIX", Key |-> PublicOf(key)]
NoKey == [N |-> 0, E |-> 0]
NotPem == [Type |-> "", Form |-> "", Key |-> NoKey]

\* GenerateRSAKeyPair: the two PEM texts of a fresh key.
GenerateRSAKeyPair(key) ==
    [PrivateKey |-> PrivatePem(key), PublicKey |-> PublicPem(key)]

\* ParseRSAPrivateKey: the first PEM block of the text, of whatever type,
\* parsed as PKCS#1.
ParseRSAPrivateKey(privateKeyPEM) ==
    IF privateKeyPEM.Type = "" THEN [err |-> "PemDecode", key |-> NoKey]
    ELSE IF privateKeyPEM.Form # "PKCS1" THEN [err |-> "ParseKey", key |-> NoKey]
    ELSE [err |-> "", key |-> privateKeyPEM.Key]

\* ParseRSAPublicKey: the first PEM block of the text, parsed as PKIX.
ParseRSAPublicKey(publicKeyPEM) ==
    IF publicKeyPEM.Type = "" THEN [err |-> "PemDecode", key |-> NoKey]
    ELSE IF publicKeyPEM.Form # "PKIX" THEN [err |-> "ParseKey", key |-> NoKey]
    ELSE [err |-> "", key |-> publicKeyPEM.Key]

\* RSAEncrypt, with the seed rand.Reader gives the padding.
RSAEncrypt(seed, publicKeyPEM, plaintext) ==
    LET publicKey == ParseRSAPublicKey(publicKeyPEM) IN
    IF publicKey.err # "" THEN Failed(publicKey.err)
    ELSE LET ciphertext == EncryptOAEP(seed, publicKey.key, plaintext) IN
         IF ciphertext.err # "" THEN Failed(ciphertext.err)
         ELSE Returned(EncodeToString(ciphertext.bytes))

\* RSADecrypt.
RSADecrypt(privateKeyPEM, ciphertextBase64) ==
    LET privateKey == ParseRSAPrivateKey(privateKeyPEM) IN
    IF privateKey.err # "" THEN Failed(privateKey.err)
    ELSE LET ciphertext == DecodeString(ciphertextBase64) IN
         IF ciphertext.err # "" THEN Failed(ciphertext.err)
         ELSE LET plaintext == DecryptOAEP(privateKey.key, ciphertext.bytes) IN
              IF plaintext.err # "" THEN Failed(plaintext.err)
              ELSE Returned(plaintext.bytes)

(***************************************************************************)
(* encoding/json's Unmarshal into a HybridEncryptResult.  The text is      *)
(* checked as a whole first: any text that is not one JSON value is a      *)
(* syntax error and nothing is set.  Of an object, a member whose key      *)
(* equals the name of a field, letters compared without regard to case,    *)
(* sets the field when its value is a string and leaves it when its value  *)
(* is null; any other value there is a type error, returned after the      *)
(* other members were read.  Members of other keys are passed over, a      *)
(* later member of a key wins over an earlier one, and null for the whole  *)
(* text sets nothing.                                                      *)
(***************************************************************************)
Whitespace == {32, 9, 10, 13}
Structurals == {123, 125, 91, 93, 44, 58}

\* The least number of a set of numbers that is not empty.
Least(set) == CHOOSE i \in set : \A j \in set : i <= j

\* The number of backslashes right before the byte at i.
RunBefore(text, i) ==
    IF i = 1 \/ text[i - 1] # 92 THEN 0
    ELSE i - 1 - Greatest({0} \cup {j \in 1..(i - 1) : text[j] # 92})

\* The places of the quotes that open or close a string: a quote after an
\* odd number of backslashes is a character of its string.
Quotes(text) ==
    SelectSeq([i \in 1..Len(text) |-> i],
              LAMBDA i : text[i] = 34 /\ RunBefore(text, i) % 2 = 0)

\* The number of such quotes before the byte at i, and whether it is one.
QuotesBefore(quotes, i) == Cardinality({k \in 1..Len(quotes) : quotes[k] < i})
IsQuote(quotes, i) == \E k \in 1..Len(quotes) : quotes[k] = i

\* The byte at i is a character of a literal: outside the strings and no
\* white space, quote or structural character.
LiteralChar(text, quotes, i) ==
    /\ i >= 1 /\ i <= Len(text)
    /\ text[i] \notin Whitespace \cup Structurals
    /\ ~IsQuote(quotes, i)
    /\ QuotesBefore(quotes, i) % 2 = 0

\* A token starts at i: an opening quote, a structural character or the
\* first character of a literal.
TokenStart(text, quotes, i) ==
    /\ QuotesBefore(quotes, i) % 2 = 0
    /\ \/ IsQuote(quotes, i)
       \/ text[i] \in Structurals
       \/ LiteralChar(text, quotes, i) /\ ~LiteralChar(text, quotes, i - 1)

\* One step of the scan of a number, -?(0|[1-9][0-9]*)(.[0-9]+)?([eE][+-]?[0-9]+)?
\* "-" after the sign, "0" after a leading 0, "1" in the whole part, "." after
\* the point, "f" in the fraction, "e" after the exponent mark, "s" after its
\* sign, "x" in the exponent, "bad" for what is no number.
NumberStep(state, c) ==
    IF state \in {"^", "-"}
    THEN (IF c = 48 THEN "0" ELSE IF c \in 49..57 THEN "1"
          ELSE IF c = 45 /\ state = "^" THEN "-" ELSE "bad")
    ELSE IF state \in {"0", "1", "f"} /\ c \in {101, 69} THEN "e"
    ELSE IF state \in {"0", "1"} /\ c = 46 THEN "."
    ELSE IF state = "1" /\ c \in 48..57 THEN "1"
    ELSE IF state \in {".", "f"} /\ c \in 48..57 THEN "f"
    ELSE IF state = "e" /\ c \in {43, 45} THEN "s"
    ELSE IF state \in {"e", "s", "x"} /\ c \in 48..57 THEN "x"
    ELSE "bad"

RECURSIVE NumberScan(_, _, _, _)
\* The scan of a number over the bytes lo..hi, taken in two halves.
NumberScan(run, state, lo, hi) ==
    IF lo > hi \/ state = "bad" THEN state
    ELSE IF lo = hi THEN NumberStep(state, run[lo])
    ELSE NumberScan(run, NumberScan(run, state, lo, (lo + hi) \div 2),
                    (lo + hi) \div 2 + 1, hi)

\* The kind of a literal.
Literal(run) ==
    IF run = <<116, 114, 117, 101>> THEN "true"
    ELSE IF run = <<102, 97, 108, 115, 101>> THEN "false"
    ELSE IF run = <<110, 117, 108, 108>> THEN "null"
    ELSE IF NumberScan(run, "^", 1, Len(run)) \in {"0", "1", "f", "x"} THEN "number"
    ELSE "bad"

\* The name of a structural character.
Structural(c) ==
    CASE c = 123 -> "{" [] c = 125 -> "}" [] c = 91 -> "[" [] c = 93 -> "]"
      [] c = 44 -> "," [] c = 58 -> ":"

\* The token that starts at i: its kind and, for a string, the places of its
\* first and last character.
TokenAt(text, quotes, i) ==
    IF IsQuote(quotes, i)
    THEN [kind |-> "string", from |-> i + 1,
          to |-> quotes[QuotesBefore(quotes, i) + 2] - 1]
    ELSE IF text[i] \in Structurals
    THEN [kind |-> Structural(text[i]), from |-> i, to |-> i]
    ELSE [kind |-> Literal(SubSeq(text, i,
                       Least({j \in i..Len(text) :
                                 ~LiteralChar(text, quotes, j + 1)}))),
          from |-> i, to |-> i]

\* The tokens that start at the places starts.
TokensAt(text, quotes, starts) ==
    [k \in 1..Len(starts) |-> TokenAt(text, quotes, starts[k])]

\* The tokens of a text whose strings are all closed.
Tokens(text, quotes) ==
    TokensAt(text, quotes,
             SelectSeq([i \in 1..Len(text) |-> i],
                       LAMBDA i : TokenStart(text, quotes, i)))

\* The kind of the k-th token, "end" after the last one.
KindAt(tokens, k) == IF k <= Len(tokens) THEN tokens[k].kind ELSE "end"

RECURSIVE ValueEnd(_, _)
RECURSIVE ElementEnd(_, _)
RECURSIVE MemberEnd(_, _)
RECURSIVE MemberRest(_, _)
\* The place after the value that starts at the k-th token, 0 when no value
\* starts there.
ValueEnd(tokens, k) ==
    IF KindAt(tokens, k) \in {"string", "number", "true", "false", "null"}
    THEN k + 1
    ELSE IF KindAt(tokens, k) = "["
    THEN (IF KindAt(tokens, k + 1) = "]" THEN k + 2
          ELSE ElementEnd(tokens, ValueEnd(tokens, k + 1)))
    ELSE IF KindAt(tokens, k) = "{"
    THEN (IF KindAt(tokens, k + 1) = "}" THEN k + 2
          ELSE MemberEnd(tokens, k + 1))
    ELSE 0

\* The place after an array one of whose elements ends before the token e.
ElementEnd(tokens, e) ==
    IF e = 0 THEN 0
    ELSE IF KindAt(tokens, e) = "," THEN ElementEnd(tokens, ValueEnd(tokens, e + 1))
    ELSE IF KindAt(tokens, e) = "]" THEN e + 1
    ELSE 0

\* The place after an object one of whose members starts at the token k.
MemberEnd(tokens, k) ==
    IF KindAt(tokens, k) = "string" /\ KindAt(tokens, k + 1) = ":"
    THEN MemberRest(tokens, ValueEnd(tokens, k + 2))
    ELSE 0

\* The place after an object one of whose members ends before the token e.
MemberRest(tokens, e) ==
    IF e = 0 THEN 0
    ELSE IF KindAt(tokens, e) = "," THEN MemberEnd(tokens, e + 1)
    ELSE IF KindAt(tokens, e) = "}" THEN e + 1
    ELSE 0

RECURSIVE Members(_, _)
\* The members of an object from the one whose key is the k-th token on: the
\* places of the key and of the first token of the value.
Members(tokens, k) ==
    IF KindAt(tokens, k) # "string" THEN << >>
    ELSE <<[key |-> k, value |-> k + 2]>>
             \o Members(tokens, ValueEnd(tokens, k + 2) + 1)

\* The byte is a hexadecimal digit, and the value of one.
HexByte(c) == c \in 48..57 \/ c \in 65..70 \/ c \in 97..102
HexValue(c) == IF c <= 57 THEN c - 48 ELSE IF c <= 70 THEN c - 55 ELSE c - 87

\* The value of the four hexadecimal digits from i on.
Hex4(text, i) ==
    HexValue(text[i]) * 4096 + HexValue(text[i + 1]) * 256
        + HexValue(text[i + 2]) * 16 + HexValue(text[i + 3])

\* The byte at i is the character after the backslash of an escape.
Escaped(text, i) == RunBefore(text, i) % 2 = 1

\* A string is well formed: no control character, and after a backslash one
\* of the characters an escape has, "u" with four hexadecimal digits.
StringOK(text, from, to) ==
    \A i \in from..to :
        /\ text[i] >= 32
        /\ Escaped(text, i) =>
              /\ text[i] \in {34, 92, 47, 98, 102, 110, 114, 116, 117}
              /\ text[i] = 117 =>
                    /\ i + 4 <= to
                    /\ \A j \in (i + 1)..(i + 4) : HexByte(text[j])

\* UTF-8 of a code point.
Utf8(cp) ==
    IF cp < 128 THEN <<cp>>
    ELSE IF cp < 2048 THEN <<192 + (cp \div 64), 128 + (cp % 64)>>
    ELSE IF cp < 65536
    THEN <<224 + (cp \div 4096), 128 + ((cp \div 64) % 64), 128 + (cp % 64)>>
    ELSE <<240 + (cp \div 262144), 128 + ((cp \div 4096) % 64),
           128 + ((cp \div 64) % 64), 128 + (cp % 64)>>

\* U+FFFD, which stands for what is no character.
Replacement == <<239, 191, 189>>

\* The escape \uXXXX whose "u" is at i has the code of a high surrogate and
\* is followed by the escape of a low one.
PairAt(text, i, to) ==
    /\ Hex4(text, i + 1) \in 55296..56319
    /\ i + 10 <= to /\ text[i + 5] = 92 /\ text[i + 6] = 117
    /\ Hex4(text, i + 7) \in 56320..57343

\* What the escape \uXXXX whose "u" is at i stands for: two surrogates make
\* one character, a surrogate on its own is no character.
Unicode(text, i, from, to) ==
    IF PairAt(text, i, to)
    THEN Utf8(65536 + (Hex4(text, i + 1) - 55296) * 1024
                  + (Hex4(text, i + 7) - 56320))
    ELSE IF i - 6 >= from /\ text[i - 6] = 117 /\ Escaped(text, i - 6)
               /\ PairAt(text, i - 6, to)
    THEN << >>
    ELSE IF Hex4(text, i + 1) \in 55296..57343 THEN Replacement
    ELSE Utf8(Hex4(text, i + 1))

\* The byte a one-letter escape stands for.
Unescaped(c) ==
    CASE c = 98 -> 8 [] c = 102 -> 12 [] c = 110 -> 10 [] c = 114 -> 13
      [] c = 116 -> 9 [] OTHER -> c

\* The byte of a text at i, 0 outside from..to.
ByteAt(text, i, from, to) == IF i >= from /\ i <= to THEN text[i] ELSE 0

\* The number of bytes of the UTF-8 character that starts at i, 0 when none
\* does.
Utf8At(text, i, from, to) ==
    IF text[i] \in 194..223
    THEN (IF ByteAt(text, i + 1, from, to) \in 128..191 THEN 2 ELSE 0)
    ELSE IF text[i] \in 224..239
    THEN (IF /\ ByteAt(text, i + 1, from, to) \in
                   (IF text[i] = 224 THEN 160..191
                    ELSE IF text[i] = 237 THEN 128..159 ELSE 128..191)
             /\ ByteAt(text, i + 2, from, to) \in 128..191
          THEN 3 ELSE 0)
    ELSE IF text[i] \in 240..244
    THEN (IF /\ ByteAt(text, i + 1, from, to) \in
                   (IF text[i] = 240 THEN 144..191
                    ELSE IF text[i] = 244 THEN 128..143 ELSE 128..191)
             /\ ByteAt(text, i + 2, from, to) \in 128..191
             /\ ByteAt(text, i + 3, from, to) \in 128..191
          THEN 4 ELSE 0)
    ELSE 0

\* What the byte at i of a string gives the string read: nothing for the
\* backslash of an escape and for the digits of \uXXXX, the character of an
\* escape, U+FFFD for a byte that is in no UTF-8 character, and any other
\* byte as it is.
Piece(text, i, from, to) ==
    IF Escaped(text, i)
    THEN (IF text[i] = 117 THEN Unicode(text, i, from, to) ELSE <<Unescaped(text[i])>>)
    ELSE IF text[i] = 92 THEN << >>
    ELSE IF \E j \in 1..4 : i - j >= from /\ text[i - j] = 117 /\ Escaped(text, i - j)
    THEN << >>
    ELSE IF text[i] < 128 THEN <<text[i]>>
    ELSE IF \E j \in 0..3 : i - j >= from /\ Utf8At(text, i - j, from, to) > j
    THEN <<text[i]>>
    ELSE Replacement

RECURSIVE Pieces(_, _, _, _, _)
\* The string read from the bytes lo..hi, taken in two halves.
Pieces(text, from, to, lo, hi) ==
    IF lo > hi THEN << >>
    ELSE IF lo = hi THEN Piece(text, lo, from, to)
    ELSE Pieces(text, from, to, lo, (lo + hi) \div 2)
             \o Pieces(text, from, to, (lo + hi) \div 2 + 1, hi)

\* The string a string token stands for.
Unquoted(text, token) == Pieces(text, token.from, token.to, token.from, token.to)

\* What the byte at i of a key gives the key folded: a capital letter its
\* small one, the long s (U+017F) an s and the Kelvin sign (U+212A) a k.
FoldPiece(key, i) ==
    IF key[i] \in 65..90 THEN <<key[i] + 32>>
    ELSE IF key[i] = 197 /\ ByteAt(key, i + 1, 1, Len(key)) = 191 THEN <<115>>
    ELSE IF key[i] = 191 /\ ByteAt(key, i - 1, 1, Len(key)) = 197 THEN << >>
    ELSE IF key[i] = 226 /\ ByteAt(key, i + 1, 1, Len(key)) = 132
               /\ ByteAt(key, i + 2, 1, Len(key)) = 170
    THEN <<107>>
    ELSE IF key[i] = 132 /\ ByteAt(key, i - 1, 1, Len(key)) = 226
               /\ ByteAt(key, i + 1, 1, Len(key)) = 170
    THEN << >>
    ELSE IF key[i] = 170 /\ ByteAt(key, i - 2, 1, Len(key)) = 226
               /\ ByteAt(key, i - 1, 1, Len(key)) = 132
    THEN << >>
    ELSE <<key[i]>>

RECURSIVE Folded(_, _, _)
\* The bytes lo..hi of a key folded, taken in two halves.
Folded(key, lo, hi) ==
    IF lo > hi THEN << >>
    ELSE IF lo = hi THEN FoldPiece(key, lo)
    ELSE Folded(key, lo, (lo + hi) \div 2) \o Folded(key, (lo + hi) \div 2 + 1, hi)

\* A key names the field of a name, letters compared without regard to case.
EqualFold(key, name) == Folded(key, 1, Len(key)) = Folded(name, 1, Len(name))

\* The members of an object whose key names a field.
Named(text, tokens, members, name) ==
    {m \in 1..Len(members) :
        EqualFold(Unquoted(text, tokens[members[m].key]), name)}

\* The members among them whose value is a string and sets the field.
Setting(tokens, members, named) ==
    {m \in named : tokens[members[m].value].kind = "string"}

\* The field after the members that set it: the last one wins.
FieldSet(text, tokens, members, setting) ==
    IF setting = {} THEN << >>
    ELSE Unquoted(text, tokens[members[Greatest(setting)].value])

\* The field of a name after Unmarshal.
Field(text, tokens, members, name) ==
    FieldSet(text, tokens, members,
             Setting(tokens, members, Named(text, tokens, members, name)))

\* A member that names the field has a value that is neither a string nor
\* null.
Mistyped(text, tokens, members, name) ==
    \E m \in Named(text, tokens, members, name) :
        tokens[members[m].value].kind \notin {"string", "null"}

\* The names of the fields of a HybridEncryptResult in JSON.
FieldNames ==
    [EncryptedAesKey |-> Bytes("encryptedAesKey"), IV |-> Bytes("iv"),
     EncryptedData |-> Bytes("encryptedData")]

\* What Unmarshal leaves of a HybridEncryptResult that nothing was set in.
Unset(err) ==
    [err |-> err, EncryptedAesKey |-> << >>, IV |-> << >>, EncryptedData |-> << >>]

\* Unmarshal of an object with its members.
UnmarshalObject(text, tokens, members) ==
    [err |-> IF \E f \in DOMAIN FieldNames :
                    Mistyped(text, tokens, members, FieldNames[f])
             THEN "UnmarshalTypeError" ELSE "",
     EncryptedAesKey |-> Field(text, tokens, members, FieldNames.EncryptedAesKey),
     IV |-> Field(text, tokens, members, FieldNames.IV),
     EncryptedData |-> Field(text, tokens, members, FieldNames.EncryptedData)]

\* Unmarshal of a text with its tokens.
UnmarshalTokens(text, tokens) ==
    IF \/ \E k \in 1..Len(tokens) : tokens[k].kind = "bad"
       \/ ValueEnd(tokens, 1) # Len(tokens) + 1
    THEN Unset("SyntaxError")
    ELSE IF tokens[1].kind = "null" THEN Unset("")
    ELSE IF tokens[1].kind # "{" THEN Unset("UnmarshalTypeError")
    ELSE UnmarshalObject(text, tokens, Members(tokens, 2))

\* Unmarshal of a text with the quotes of its strings.
UnmarshalQuoted(text, quotes) ==
    IF \/ Len(quotes) % 2 = 1
       \/ \E k \in 1..(Len(quotes) \div 2) :
             ~StringOK(text, quotes[2 * k - 1] + 1, quotes[2 * k] - 1)
    THEN Unset("SyntaxError")
    ELSE UnmarshalTokens(text, Tokens(text, quotes))

\* json.Unmarshal([]byte(text), &result) for a HybridEncryptResult.
Unmarshal(text) == UnmarshalQuoted(text, Quotes(text))

(***************************************************************************)
(* The library's AES-GCM, reduced: a key of 16, 24 or 32 bytes, a nonce of *)
(* NonceBytes bytes (anything else makes Open panic), and a sealed text    *)
(* that ends in a tag of TagBytes bytes which Open checks.                 *)
(***************************************************************************)
AesKeySizes == {16, 24, 32}
NonceBytes == 12
TagBytes == 16
\* The tag of sealed data: the hashes of the key, the nonce and the data in
\* the lanes 1, 2, ..., two bytes each.
TagFrom(sums) == [i \in 1..TagBytes |-> sums[(i + 1) \div 2][2 - (i % 2)]]
TagOf(key, nonce, data) ==
    TagFrom([lane \in 1..(TagBytes \div 2) |-> Sum(lane, key \o nonce \o data)])
GcmSeal(key, nonce, plaintext) ==
    LET data == [i \in 1..Len(plaintext) |->
                    Xor(plaintext[i], (key[((i - 1) % Len(key)) + 1]
                                          + nonce[((i - 1) % NonceBytes) + 1]) % 256)]
    IN data \o TagOf(key, nonce, data)
GcmOpen(key, nonce, sealed) ==
    IF Len(nonce) # NonceBytes THEN [err |-> "panic", bytes |-> << >>]
    ELSE IF Len(sealed) < TagBytes THEN [err |-> "Authentication", bytes |-> << >>]
    ELSE LET data == SubSeq(sealed, 1, Len(sealed) - TagBytes)
             tag == SubSeq(sealed, Len(sealed) - TagBytes + 1, Len(sealed))
         IN IF tag # TagOf(key, nonce, data)
            THEN [err |-> "Authentication", bytes |-> << >>]
            ELSE [err |-> "",
                  bytes |-> [i \in 1..Len(data) |->
                      Xor(data[i], (key[((i - 1) % Len(key)) + 1]
                                       + nonce[((i - 1) % NonceBytes) + 1]) % 256)]]

\* HybridDecrypt: the AES key under RSA-OAEP, the data under AES-GCM.
HybridDecrypt(privateKeyPEM, hybridCiphertextJSON) ==
    LET result == Unmarshal(hybridCiphertextJSON)
        privateKey == ParseRSAPrivateKey(privateKeyPEM)
        encryptedAesKey == DecodeString(result.EncryptedAesKey)
        aesKey == DecryptOAEP(privateKey.key, encryptedAesKey.bytes)
        iv == DecodeString(result.IV)
        encryptedData == DecodeString(result.EncryptedData)
        plaintext == GcmOpen(aesKey.bytes, iv.bytes, encryptedData.bytes)
    IN IF result.err # "" THEN Failed(result.err)
       ELSE IF privateKey.err # "" THEN Failed(privateKey.err)
       ELSE IF encryptedAesKey.err # "" THEN Failed(encryptedAesKey.err)
       ELSE IF aesKey.err # "" THEN Failed(aesKey.err)
       ELSE IF iv.err # "" THEN Failed(iv.err)
       ELSE IF encryptedData.err # "" THEN Failed(encryptedData.err)
       ELSE IF Len(aesKey.bytes) \notin AesKeySizes THEN Failed("KeySize")
       ELSE IF plaintext.err # "" THEN Failed(plaintext.err)
       ELSE Returned(plaintext.bytes)

\* SmartDecrypt taking every text for a hybrid one.
SmartDecryptHybrid(privateKeyPEM, ciphertext) ==
    HybridDecrypt(privateKeyPEM, ciphertext)

\* SmartDecrypt: hybrid decryption for a text that parses as JSON with the
\* three fields filled, RSA decryption for any other text.
SmartDecrypt(privateKeyPEM, ciphertext) ==
    LET result == Unmarshal(ciphertext) IN
    IF result.err = "" /\ result.EncryptedAesKey # << >> /\ result.IV # << >>
           /\ result.EncryptedData # << >>
    THEN HybridDecrypt(privateKeyPEM, ciphertext)
    ELSE RSADecrypt(privateKeyPEM, ciphertext)

(***************************************************************************)
(* The web client (src/web/src/lib/encryption.ts): a random AES-256 key    *)
(* and a random IV of 12 bytes seal the text with AES-GCM, the key goes    *)
(* under RSA-OAEP with the server's public key, and the three parts are    *)
(* sent as one JSON text, each in base64.                                  *)
(***************************************************************************)
\* A JSON object of three members whose values are strings, written without
\* white space and without escapes.
InQuotes(text) == <<34>> \o text \o <<34>>
Member(key, value) == key \o <<58>> \o value
ObjectOf(member1, member2, member3) ==
    <<123>> \o member1 \o <<44>> \o member2 \o <<44>> \o member3 \o <<125>>

\* JSON.stringify of a HybridEncryptResult whose fields are the given texts.
Stringify(encryptedAesKey, iv, encryptedData) ==
    ObjectOf(Member(InQuotes(Bytes("encryptedAesKey")), InQuotes(encryptedAesKey)),
             Member(InQuotes(Bytes("iv")), InQuotes(iv)),
             Member(InQuotes(Bytes("encryptedData")), InQuotes(encryptedData)))

\* crypto.subtle.generateKey and crypto.getRandomValues: the keys and the IVs
\* they may give.
AesKeys == {[i \in 1..32 |-> (i * 37) % 256], [i \in 1..32 |-> 255 - i]}
Nonces == {[i \in 1..NonceBytes |-> i], [i \in 1..NonceBytes |-> (i * 91) % 256]}

\* RSAEncrypt.encrypt, which encryptData calls.
encryptData(aesKey, iv, seed, publicKeyPEM, plainText) ==
    LET publicKey == ParseRSAPublicKey(publicKeyPEM)
        encryptedData == GcmSeal(aesKey, iv, plainText)
        encryptedAesKey == EncryptOAEP(seed, publicKey.key, aesKey)
    IN IF publicKey.err # "" THEN Failed("ImportKey")
       ELSE IF encryptedAesKey.err # "" THEN Failed(encryptedAesKey.err)
       ELSE Returned(Stringify(EncodeToString(encryptedAesKey.bytes),
                               EncodeToString(iv),
                               EncodeToString(encryptedData)))

\* A text with two of its bytes exchanged.
Exchanged(text, i, j) == [text EXCEPT ![i] = text[j], ![j] = text[i]]

\* Texts that the web client did not make, built by someone who holds the
\* public key: an IV of 3 bytes; an IV other than the one the data was
\* sealed with; sealed data with a byte changed; sealed data shorter than a
\* tag; a key of 5 bytes under RSA-OAEP; three fields that are no base64; an
\* empty IV; an object with no member; keys in capital letters, one of them
\* with an escape, and sealed data with two bytes exchanged; a member more,
\* whose value is a number, and an encrypted key with two bytes exchanged; a
\* line feed in a string; null for the IV.
ForgedTexts(publicKeyPEM) ==
    LET publicKey == ParseRSAPublicKey(publicKeyPEM).key
        aesKey == [i \in 1..32 |-> (i * 37) % 256]
        iv == [i \in 1..NonceBytes |-> i]
        sealed == GcmSeal(aesKey, iv, Bytes("secret"))
        encrypted == EncryptOAEP([i \in 1..HashBytes |-> (77 * i) % 256],
                                 publicKey, aesKey).bytes
        key == EncodeToString(encrypted)
    IN {Stringify(key, EncodeToString(<<1, 2, 3>>), EncodeToString(sealed)),
        Stringify(key, EncodeToString([i \in 1..NonceBytes |-> 200 - i]),
                  EncodeToString(sealed)),
        Stringify(key, EncodeToString(iv),
                  EncodeToString([sealed EXCEPT ![1] = (@ + 1) % 256])),
        Stringify(key, EncodeToString(iv), EncodeToString(<<1, 2, 3>>)),
        Stringify(EncodeToString(EncryptOAEP([i \in 1..HashBytes |-> (77 * i) % 256],
                                             publicKey, Bytes("Hello")).bytes),
                  EncodeToString(iv), EncodeToString(sealed)),
        Stringify(Bytes("invalid"), Bytes("invalid"), Bytes("invalid")),
        Stringify(key, << >>, EncodeToString(sealed)),
        <<123, 125>>,
        ObjectOf(Member(InQuotes(Bytes("ENCRYPTEDAESKEY")), InQuotes(key)),
                 Member(InQuotes(<<92>> \o Bytes("u0049V")),
                        InQuotes(EncodeToString(iv))),
                 Member(InQuotes(Bytes("EncryptedData")),
                        InQuotes(EncodeToString(Exchanged(sealed, 1, 2))))),
        ObjectOf(Member(InQuotes(Bytes("v")), Bytes("1")),
                 Member(InQuotes(Bytes("encryptedAesKey")),
                        InQuotes(EncodeToString(
                            Exchanged(encrypted, KeyBytes - 1, KeyBytes))))
                     \o <<44>> \o Member(InQuotes(Bytes("iv")),
                                         InQuotes(EncodeToString(iv))),
                 Member(InQuotes(Bytes("encryptedData")),
                        InQuotes(EncodeToString(sealed)))),
        Stringify(key, EncodeToString(iv) \o <<10>>, EncodeToString(sealed)),
        ObjectOf(Member(InQuotes(Bytes("encryptedAesKey")), InQuotes(key)),
                 Member(InQuotes(Bytes("iv")), Bytes("null")),
                 Member(InQuotes(Bytes("encryptedData")),
                        InQuotes(EncodeToString(sealed))))}

(***************************************************************************)
(* The config package on its own: a key pair is generated, a plaintext is  *)
(* encrypted with its public key, and the ciphertext is decrypted by       *)
(* RSADecrypt or SmartDecrypt with a key text the caller holds.            *)
(***************************************************************************)
NoKeyPair == [PrivateKey |-> NotPem, PublicKey |-> NotPem]
NoOutcome == [err |-> "none", text |-> << >>]
Unused == [keyPair |-> NoKeyPair, plaintext |-> << >>, producer |-> "",
           ciphertext |-> NoOutcome,
           decrypter |-> "", key |-> NotPem, decrypted |-> NoOutcome]

\* The plaintexts encrypted: the empty one, "Hello", two Chinese characters
\* in UTF-8, "short message", bytes that start with zeros, the longest that
\* fits and one byte more than fits.
Plaintexts ==
    {<< >>, Bytes("Hello"), <<228, 189, 160, 229, 165, 189>>,
     Bytes("short message"), <<0, 0, 1, 0>>,
     [i \in 1..MaxMessage |-> 255 - i], [i \in 1..(MaxMessage + 1) |-> i]}

\* The key texts a caller may pass to a decryption: the private key of the
\* pair, its public key, the private key of another pair, and no PEM at all.
KeyTexts(keyPair) ==
    {keyPair.PrivateKey, keyPair.PublicKey, NotPem}
        \cup {PrivatePem(key) : key \in RsaKeys}

InitConfig ==
    /\ marketInfoCache = EmptyCache
    /\ w = [p \in Procs |-> Unused]
    /\ clock = 0

GenerateKeys(p) ==
    /\ w[p].keyPair = NoKeyPair
    /\ \E key \in RsaKeys :
          w' = [w EXCEPT ![p].keyPair = GenerateRSAKeyPair(key)]
    /\ UNCHANGED <<marketInfoCache, clock>>

Encrypt(p) ==
    /\ w[p].keyPair # NoKeyPair
    /\ w[p].ciphertext = NoOutcome
    /\ \E seed \in Seeds, plaintext \in Plaintexts :
          w' = [w EXCEPT ![p].plaintext = plaintext,
                         ![p].producer = "RSAEncrypt",
                         ![p].ciphertext =
                             RSAEncrypt(seed, w[p].keyPair.PublicKey, plaintext)]
    /\ UNCHANGED <<marketInfoCache, clock>>

\* The web client encrypts a text for the server with the public key it
\* fetched.
EncryptData(p) ==
    /\ w[p].keyPair # NoKeyPair
    /\ w[p].ciphertext = NoOutcome
    /\ \E seed \in Seeds, aesKey \in AesKeys, iv \in Nonces,
          plainText \in Plaintexts :
          w' = [w EXCEPT ![p].plaintext = plainText,
                         ![p].producer = "encryptData",
                         ![p].ciphertext =
                             encryptData(aesKey, iv, seed,
                                         w[p].keyPair.PublicKey, plainText)]
    /\ UNCHANGED <<marketInfoCache, clock>>

\* Someone who knows the public key sends a text the web client did not
\* make.
Forge(p) ==
    /\ w[p].keyPair # NoKeyPair
    /\ w[p].ciphertext = NoOutcome
    /\ \E text \in ForgedTexts(w[p].keyPair.PublicKey) :
          w' = [w EXCEPT ![p].producer = "forged",
                         ![p].ciphertext = Returned(text)]
    /\ UNCHANGED <<marketInfoCache, clock>>

Decrypt(p) ==
    /\ w[p].ciphertext.err = ""
    /\ w[p].decrypted = NoOutcome
    /\ \E key \in KeyTexts(w[p].keyPair) :
          \/ w' = [w EXCEPT ![p].decrypter = "RSADecrypt", ![p].key = key,
                            ![p].decrypted = RSADecrypt(key, w[p].ciphertext.text)]
          \/ w' = [w EXCEPT ![p].decrypter = "SmartDecrypt", ![p].key = key,
                            ![p].decrypted = SmartDecrypt(key, w[p].ciphertext.text)]
    /\ UNCHANGED <<marketInfoCache, clock>>

NextConfig ==
    \E p \in SeqProcs :
        \/ GenerateKeys(p)
        \/ Encrypt(p)
        \/ EncryptData(p)
        \/ Forge(p)
        \/ Decrypt(p)

SpecConfig == InitConfig /\ [][NextConfig]_vars

\* C30: a plaintext that fits RSA-OAEP is encrypted without error, and the
\* ciphertext RSAEncrypt returned for it under the public key of a generated
\* pair decrypts to that plaintext under the private key of the pair, through
\* RSADecrypt and through SmartDecrypt alike.
C30_DecryptOfEncrypt ==
    \A p \in Procs :
        /\ (w[p].producer = "RSAEncrypt" /\ Len(w[p].plaintext) <= MaxMessage)
              => w[p].ciphertext.err = ""
        /\ (w[p].decrypted # NoOutcome /\ w[p].producer = "RSAEncrypt"
               /\ w[p].key = w[p].keyPair.PrivateKey)
              => w[p].decrypted = Returned(w[p].plaintext)

\* C30 witness: "short message" came back from SmartDecrypt under the
\* matching private key, from a ciphertext of one block in base64.
C30_Witness ==
    \E p \in Procs :
        /\ w[p].decrypter = "SmartDecrypt" /\ w[p].producer = "RSAEncrypt"
        /\ w[p].key = w[p].keyPair.PrivateKey
        /\ w[p].plaintext = Bytes("short message")
        /\ Len(w[p].ciphertext.text) = 4 * ((KeyBytes + 2) \div 3)
        /\ w[p].decrypted = Returned(Bytes("short message"))

\* A SmartDecrypt call that returned, the text it was given, and whether that
\* text is in the hybrid format: JSON with the three fields filled.
SmartDecrypted(p) == w[p].decrypter = "SmartDecrypt" /\ w[p].decrypted # NoOutcome
HybridFormat(text) ==
    LET result == Unmarshal(text) IN
    /\ result.err = ""
    /\ result.EncryptedAesKey # << >> /\ result.IV # << >>
    /\ result.EncryptedData # << >>

\* C31 as claimed: SmartDecrypt returns what HybridDecrypt returns for a text
\* in the hybrid format and what RSADecrypt returns for any other text, and a
\* text in the hybrid format that the web client did not make yields an
\* error: not a plaintext, and not a panic either.
C31_HybridOrRsa ==
    \A p \in Procs :
        SmartDecrypted(p) =>
            LET text == w[p].ciphertext.text IN
            /\ HybridFormat(text) =>
                  w[p].decrypted = HybridDecrypt(w[p].key, text)
            /\ ~HybridFormat(text) =>
                  w[p].decrypted = RSADecrypt(w[p].key, text)
            /\ (HybridFormat(text) /\ w[p].producer = "forged") =>
                  w[p].decrypted.err \notin {"", "panic"}

\* A close called with quantity 0 that submitted an order, and the places in
\* the list GetPositions gave it of the positions on its symbol and side.
ClosedAll(p) ==
    /\ w[p].op.name \in CloseOps /\ w[p].op.quantity = Zero
    /\ Issued(w[p], "createOrder") # {}
PositionsOf(p) == GetPositions(<<Account("0", "0", w[p].account)>>)
MatchingPlaces(p) ==
    {i \in 1..Len(PositionsOf(p)) :
        /\ PositionsOf(p)[i].symbol = w[p].op.symbol
        /\ PositionsOf(p)[i].side = CloseSide(w[p].op.name)}

\* C32: a CloseLong or CloseShort with quantity 0 that submits an order found
\* a position on its symbol and side, and the size of the order is the
\* encoding of the amount of the first such position in the list; positions
\* on another symbol or the other side are passed over.
C32_CloseSizedByPosition ==
    \A p \in Procs :
        ClosedAll(p) =>
            /\ MatchingPlaces(p) # {}
            /\ LET first == CHOOSE i \in MatchingPlaces(p) :
                                \A j \in MatchingPlaces(p) : i <= j
               IN \A i \in Issued(w[p], "createOrder") :
                     w[p].calls[i].req.BaseAmount \in
                         convertToBaseAmount(marketInfoCache, w[p].op.symbol,
                                             PositionsOf(p)[first].positionAmt)

\* C32 witness: with a long on ETH, a short of 1.0 and a long of 2.5 on BTC,
\* in that order, CloseLong(BTCUSDT, 0) sized its order from 2.5 and
\* CloseShort(BTCUSDT, 0) from 1.0.
C32_Witness ==
    \E p \in Procs :
        /\ ClosedAll(p) /\ w[p].op.symbol = "BTCUSDT"
        /\ Len(w[p].account) = 3
        /\ w[p].op.name = "CloseShort"
        /\ w[p].quantity = F64(Dec(1, 0))
        /\ \E i \in Issued(w[p], "createOrder") :
              w[p].calls[i].req.BaseAmount \in
                  convertToBaseAmount(marketInfoCache, "BTCUSDT", F64(Dec(1, 0)))

\* C33 as claimed: a SetStopLoss or SetTakeProfit given the label "long", as
\* GetPositions reports a long position, submits a sell order (isAsk = 1),
\* as it does for the label "LONG".
C33_SideLabelAnyCase ==
    \A p \in Procs :
        (w[p].op.name \in ProtectOps /\ w[p].op.positionSide \in {"long", "LONG"}) =>
            \A i \in Issued(w[p], "createOrder") : w[p].calls[i].req.IsAsk = 1

\* The versions of a coin's cache entry: what the order-book lists hold for
\* it.
Versions(coin) ==
    {m \in UNION {{l[k] : k \in 1..Len(l)} : l \in MarketLists} : m.Symbol = coin}

\* An order built from one version of the entry: its market index, and its
\* size and price encoded with that version's decimals.
BuiltFrom(r, req, m) ==
    LET cache == StoreMarket(EmptyCache, m) IN
    /\ req.MarketIndex = m.MarketID
    /\ req.BaseAmount \in convertToBaseAmount(cache, r.op.symbol, r.quantity)
    /\ req.Price \in convertToLighterPrice(cache, r.op.symbol,
                       LimitInput(r.op.name, r.price, r.op.price))

\* C34 as claimed: the market index, the size decimals and the price decimals
\* of every order come from one version of the symbol's cache entry, also
\* when another goroutine reloads the cache in between.
C34_OneVersionPerOrder ==
    \A p \in Procs :
        \A i \in Issued(w[p], "createOrder") :
            \E m \in Versions(Coin(p)) : BuiltFrom(w[p], w[p].calls[i].req, m)


\* The open, close, stop-loss and take-profit workflows.
OrderOps == OpenOps \cup CloseOps \cup ProtectOps

\* The worker stands at, or failed at, a step that reads the symbol's cache
\* entry: the price fetch or one of the encodings.
AtCacheRead(p) ==
    /\ w[p].pc \in 1..Len(Workflow(w[p].op.name))
    /\ Step(p) \in {"price", "size", "limit", "trigger"}

\* C35: with one goroutine, whenever an open, close, stop-loss or take-profit
\* workflow fetches the price or encodes a size or a price, the symbol's
\* MarketInfo is in the cache: the price fetch never fails for a missing
\* entry, and every submitted order holds the size and the price encoded with
\* the cached decimals, never with the 4-decimal fallback.
C35_CachedWhenEncoded ==
    \A p \in Procs :
        w[p].op.name \in OrderOps =>
            /\ AtCacheRead(p) => Coin(p) \in DOMAIN marketInfoCache
            /\ ~(AtCacheRead(p) /\ Step(p) = "price"
                    /\ w[p].result = "MarketNotFound")
            /\ \A i \in Issued(w[p], "createOrder") :
                  /\ Coin(p) \in DOMAIN marketInfoCache
                  /\ BuiltFrom(w[p], w[p].calls[i].req, marketInfoCache[Coin(p)])

\* C35 witness: a workflow whose first probe of the map missed submitted an
\* order after the reload stored the symbol's entry.
C35_Witness ==
    \E p \in Procs :
        /\ w[p].op.name \in OrderOps
        /\ ~w[p].lk.first /\ w[p].lk.found
        /\ Issued(w[p], "createOrder") # {}
        /\ Coin(p) \in DOMAIN marketInfoCache


\* The orders the engine created: the goroutine and the place of each
\* createOrder call in its log.
CreatedOrders ==
    UNION {{<<p, i>> : i \in Issued(w[p], "createOrder")} : p \in Procs}

\* C36 as claimed: any two orders created by the engine carry distinct
\* clientOrderIndex values, also when both are created within one
\* millisecond.
C36_DistinctOrderIndex ==
    \A a, b \in CreatedOrders :
        a # b => w[a[1]].calls[a[2]].req.ClientOrderIndex
                    # w[b[1]].calls[b[2]].req.ClientOrderIndex


\* The leverage argument reached the division of SetLeverage.
LeverageComputed(p) ==
    /\ w[p].op.name \in OpenOps \cup {"SetLeverage"}
    /\ \/ Issued(w[p], "updateLeverage") # {}
       \/ w[p].result = "fatal"

\* C37 as claimed: every updateLeverage request carries an IMF between 1 and
\* 10000, and a leverage of 0, a negative leverage or one above 10000 is
\* rejected with an error: no crash, no request with an IMF of 0 or a
\* wrapped 16-bit value.
C37_ImfInRange ==
    \A p \in Procs :
        /\ \A i \in Issued(w[p], "updateLeverage") :
              w[p].calls[i].req.InitialMarginFraction \in 1..10000
        /\ (w[p].op.name \in OpenOps \cup {"SetLeverage"}
              /\ w[p].op.leverage \in BadLeverages) => ~LeverageComputed(p)


\* C38 as claimed: a price fetch that returns without error returns a price
\* above zero, whatever the order-book detail holds.
C38_PricePositive ==
    \A p \in Procs :
        (w[p].op.name = "GetMarketPrice" /\ w[p].result = "ok") =>
            FPositive(w[p].out)


(***************************************************************************)
(* The news provider on its own (news/provider/default): one provider, its *)
(* cache in w[p].cache, one caller of FetchNews, the clock ticking between *)
(* the steps.                                                              *)
(***************************************************************************)
\* DefaultNewsProvider.CacheTime, in ticks of the clock.
CacheTime == 2

NewsSymbols == {"BTC", "ETH"}

\* The symbol lists a caller passes, a repeated symbol and none included.
SymbolLists ==
    {<< >>, <<"BTC">>, <<"ETH">>, <<"BTC", "ETH">>, <<"ETH", "BTC">>,
     <<"BTC", "BTC">>}

Limits == {10}

\* The provider between calls, with its cache.
NoNews(cache) ==
    [cache |-> cache, symbols |-> << >>, limit |-> 0, i |-> 0, sub |-> "idle",
     result |-> << >>, reads |-> << >>]

\* The items the source returns for a symbol at the instant t: one item,
\* published an hour before.
SourceNews(symbol, t) ==
    << [Symbol |-> symbol, Source |-> "CryptoPanic",
        PublishedAt |-> AddHours(t, -1), Sentiment |-> 0, Impact |-> 50] >>

\* Expired with no entry ever expiring.
ExpiredNever(timestamp, now) == FALSE

\* time.Since(entry.timestamp) > p.CacheTime
Expired(timestamp, now) == now - timestamp > CacheTime

\* delete(p.cache, symbol)
DeleteEntry(cache, symbol) == [s \in DOMAIN cache \ {symbol} |-> cache[s]]

\* updateCache, and result[symbol] = news: a map with one key set.
Put(map, key, value) ==
    [k \in DOMAIN map \cup {key} |-> IF k = key THEN value ELSE map[k]]

\* The next symbol of the loop, or the return after the last one.
NextSymbol(r) ==
    IF r.i = Len(r.symbols) THEN [r EXCEPT !.sub = "return"]
    ELSE [r EXCEPT !.i = @ + 1, !.sub = "cache"]

InitNews ==
    /\ marketInfoCache = EmptyCache
    /\ w = [p \in Procs |-> NoNews(<< >>)]
    /\ clock = 0

\* FetchNews is called: no symbols returns the empty map at once.
FetchNews(p) ==
    /\ w[p].sub = "idle"
    /\ \E symbols \in SymbolLists, limit \in Limits :
          w' = [w EXCEPT ![p] =
                   NextSymbol([NoNews(w[p].cache) EXCEPT !.symbols = symbols,
                                                         !.limit = limit])]
    /\ UNCHANGED <<marketInfoCache, clock>>

\* getFromCache for the symbol of the loop: a live entry goes to the result,
\* an expired one is deleted.
GetFromCache(p) ==
    /\ w[p].sub = "cache"
    /\ LET r == w[p]
           symbol == r.symbols[r.i]
           exists == symbol \in DOMAIN r.cache
       IN w' = [w EXCEPT ![p] =
                   IF exists /\ ~Expired(r.cache[symbol].timestamp, clock)
                   THEN NextSymbol([r EXCEPT
                            !.result = Put(@, symbol, r.cache[symbol].news),
                            !.reads = Append(@,
                                [symbol |-> symbol, from |-> "cache",
                                 news |-> r.cache[symbol].news,
                                 age |-> clock - r.cache[symbol].timestamp,
                                 fetched |-> -1, at |-> clock])])
                   ELSE [r EXCEPT
                            !.cache = DeleteEntry(@, symbol),
                            !.sub = "source",
                            !.reads = Append(@,
                                [symbol |-> symbol, from |-> "miss",
                                 news |-> << >>,
                                 age |-> IF exists
                                         THEN clock - r.cache[symbol].timestamp
                                         ELSE -1,
                                 fetched |-> -1, at |-> clock])]]
    /\ UNCHANGED <<marketInfoCache, clock>>

\* fetchFromSource: the items carry the time read while they are built
\* (line 111). The source shipped always succeeds; the error is what a source
\* filled in may return, and FetchNews skips the symbol on it.
FetchFromSource(p) ==
    /\ w[p].sub = "source"
    /\ \E ok \in BOOLEAN :
          LET r == w[p]
              symbol == r.symbols[r.i]
              k == Len(r.reads)
          IN w' = [w EXCEPT ![p] =
                      IF ok
                      THEN [r EXCEPT
                               !.sub = "update",
                               !.reads[k].from = "fetched",
                               !.reads[k].news =
                                   SourceNews(symbol, Instant(clock)),
                               !.reads[k].fetched = clock]
                      ELSE NextSymbol([r EXCEPT !.reads[k].from = "failed",
                                                !.reads[k].at = clock])]
    /\ UNCHANGED <<marketInfoCache, clock>>

\* updateCache with the time it reads itself (line 89), then
\* result[symbol] = news.
UpdateCache(p) ==
    /\ w[p].sub = "update"
    /\ LET r == w[p]
           symbol == r.symbols[r.i]
           k == Len(r.reads)
       IN w' = [w EXCEPT ![p] =
                   NextSymbol([r EXCEPT
                       !.cache = Put(@, symbol,
                           [news |-> r.reads[k].news, timestamp |-> clock]),
                       !.result = Put(@, symbol, r.reads[k].news),
                       !.reads[k].from = "source",
                       !.reads[k].at = clock])]
    /\ UNCHANGED <<marketInfoCache, clock>>

\* return result, nil
ReturnNews(p) ==
    /\ w[p].sub = "return"
    /\ w' = [w EXCEPT ![p].sub = "idle"]
    /\ UNCHANGED <<marketInfoCache, clock>>

NextNews ==
    \/ Tick
    \/ \E p \in SeqProcs :
          \/ FetchNews(p)
          \/ GetFromCache(p)
          \/ FetchFromSource(p)
          \/ UpdateCache(p)
          \/ ReturnNews(p)

SpecNews == InitNews /\ [][NextNews]_vars

\* The finished iterations of the loop that read symbol s.
ReadsOf(p, s) ==
    {k \in 1..Len(w[p].reads) :
        w[p].reads[k].symbol = s /\ w[p].reads[k].from \notin {"miss", "fetched"}}

\* C39: FetchNews answers from the cache only with an entry no older than
\* CacheTime; an expired entry is deleted, the symbol is fetched from the
\* source and cached again with the time read after the fetch, the items
\* carrying the time read during it; a symbol whose fetch
\* failed adds nothing to the result and the loop goes on with the others;
\* the result holds requested symbols only, each with the news of its last
\* successful iteration.
C39_FreshOrRefetched ==
    \A p \in Procs :
        LET r == w[p] IN
        /\ \A k \in 1..Len(r.reads) :
              LET rd == r.reads[k] IN
              /\ rd.from = "cache" => rd.age \in 0..CacheTime
              /\ rd.age > CacheTime =>
                    rd.from \in {"miss", "fetched", "source", "failed"}
              /\ (k = Len(r.reads) /\ rd.from \in {"miss", "fetched"}) =>
                    rd.symbol \notin DOMAIN r.cache
              /\ rd.from \in {"fetched", "source"} =>
                    rd.news = SourceNews(rd.symbol, Instant(rd.fetched))
              /\ (k = Len(r.reads) /\ rd.from = "source") =>
                    /\ rd.symbol \in DOMAIN r.cache
                    /\ rd.fetched <= rd.at
                    /\ r.cache[rd.symbol] =
                          [news |-> rd.news, timestamp |-> rd.at]
              /\ (k = Len(r.reads) /\ rd.from = "failed") =>
                    rd.symbol \notin DOMAIN r.cache
        /\ DOMAIN r.result \subseteq {r.symbols[j] : j \in 1..Len(r.symbols)}
        /\ \A s \in NewsSymbols :
              LET good == {k \in ReadsOf(p, s) : r.reads[k].from # "failed"} IN
              /\ s \in DOMAIN r.result <=> good # {}
              /\ good # {} =>
                    LET last == CHOOSE k \in good : \A j \in good : j <= k IN
                    /\ r.result[s] = r.reads[last].news
                    /\ r.reads[last].from = "source" =>
                          r.result[s] =
                              SourceNews(s, Instant(r.reads[last].fetched))
        /\ r.sub = "return" => Len(r.reads) = Len(r.symbols)

\* C39 witness: a call is about to return in which the entry of BTC, older
\* than CacheTime, was deleted, fetched again and cached, and the fetch of
\* ETH failed: the result holds BTC alone.
C39_Witness ==
    \E p \in Procs :
        /\ w[p].sub = "return" /\ w[p].symbols = <<"BTC", "ETH">>
        /\ w[p].reads[1].age > CacheTime /\ w[p].reads[1].from = "source"
        /\ w[p].reads[2].from = "failed"
        /\ DOMAIN w[p].result = {"BTC"}
        /\ w[p].cache["BTC"] = [news |-> w[p].reads[1].news,
                                timestamp |-> w[p].reads[1].at]


(***************************************************************************)
(* The web client's public-key cache (web/src/lib/encryption.ts): the page *)
(* is w[p], with the static RSAEncrypt.publicKeyPEM, its calls of          *)
(* getPublicKey, some of them awaiting the server, and the order of what   *)
(* happened.                                                               *)
(***************************************************************************)
MaxCalls == 3
MaxClears == 1

\* null, as publicKeyPEM starts and as clearCache leaves it.
Null == "null"

\* The keys GET /api/rsa-public-key answers with, one before and one after
\* a rotation.
ServerKeys == {"PEM1", "PEM2"}

\* What data.public_key evaluates to when the reply is ok and its body is
\* JSON but carries no key: the member is missing, null or the empty string.
Undefined == "undefined"
KeylessReplies == {Undefined, Null, ""}

\* The values of publicKeyPEM that !this.publicKeyPEM takes for no key.
Falsy == {Null, Undefined, ""}

\* The ways the request fails: fetch rejects, the status is not ok, the
\* body is not JSON, the body is the JSON null (reading its member throws).
FetchFailures == {"network", "status", "json", "nullbody"}

Page == [publicKeyPEM |-> Null, calls |-> << >>, log |-> << >>]

\* if (!this.publicKeyPEM)
NeedsFetch(publicKeyPEM) == publicKeyPEM \in Falsy

InitPage ==
    /\ marketInfoCache = EmptyCache
    /\ w = [p \in Procs |-> Page]
    /\ clock = 0

Event(r, ev, id) ==
    [r EXCEPT !.log = Append(@, [ev |-> ev, id |-> id,
                                 publicKeyPEM |-> r.publicKeyPEM])]

\* getPublicKey(): with a cached key it resolves to it; without one it sends
\* the request and awaits the response.
GetPublicKey(p) ==
    /\ Len(w[p].calls) < MaxCalls
    /\ LET r == w[p]
           id == Len(r.calls) + 1
           call == IF NeedsFetch(r.publicKeyPEM)
                   THEN [fetched |-> TRUE, state |-> "fetching", value |-> Null]
                   ELSE [fetched |-> FALSE, state |-> "returned",
                         value |-> r.publicKeyPEM]
       IN w' = [w EXCEPT ![p] =
                   Event([r EXCEPT !.calls = Append(@, call)], "call", id)]
    /\ UNCHANGED <<marketInfoCache, clock>>

\* The response of one awaited request: data.public_key, whatever it is, is
\* stored and returned; a failure is thrown on as an Error.
Respond(p) ==
    /\ \E id \in 1..Len(w[p].calls) :
          /\ w[p].calls[id].state = "fetching"
          /\ \/ \E key \in ServerKeys \cup KeylessReplies :
                   w' = [w EXCEPT ![p] =
                            Event([w[p] EXCEPT !.publicKeyPEM = key,
                                               !.calls[id].state = "returned",
                                               !.calls[id].value = key],
                                  "ok", id)]
             \/ \E failure \in FetchFailures :
                   w' = [w EXCEPT ![p] =
                            Event([w[p] EXCEPT !.calls[id].state = "threw"],
                                  "fail", id)]
    /\ UNCHANGED <<marketInfoCache, clock>>

\* clearPublicKeyCache()
ClearPublicKeyCache(p) ==
    /\ Cardinality({k \in 1..Len(w[p].log) : w[p].log[k].ev = "clear"}) < MaxClears
    /\ w' = [w EXCEPT ![p] = Event([w[p] EXCEPT !.publicKeyPEM = Null], "clear", 0)]
    /\ UNCHANGED <<marketInfoCache, clock>>

NextPage ==
    \E p \in SeqProcs :
        \/ GetPublicKey(p)
        \/ Respond(p)
        \/ ClearPublicKeyCache(p)

SpecPage == InitPage /\ [][NextPage]_vars

\* publicKeyPEM before the k-th event of the page.
CacheBefore(r, k) == IF k = 1 THEN Null ELSE r.log[k - 1].publicKeyPEM

\* C40: getPublicKey sends a request only when the cache holds no key; from
\* a successful fetch (an ok reply) until clearPublicKeyCache every call
\* returns the cached key without a request; a failed fetch leaves the cache
\* as it was (empty, when no other fetch filled it), and a call with the
\* cache empty fetches again.
C40_FetchOnlyWhenEmpty ==
    \A p \in Procs :
        LET r == w[p] IN
        \A k \in 1..Len(r.log) :
            LET e == r.log[k] IN
            /\ e.ev = "call" =>
                  /\ r.calls[e.id].fetched <=> CacheBefore(r, k) \in Falsy
                  /\ ~r.calls[e.id].fetched =>
                        /\ r.calls[e.id].state = "returned"
                        /\ r.calls[e.id].value = CacheBefore(r, k)
                        /\ r.calls[e.id].value \in ServerKeys
            /\ e.ev = "ok" =>
                  \A j \in (k + 1)..Len(r.log) :
                      (r.log[j].ev = "call"
                         /\ \A c \in (k + 1)..j : r.log[c].ev # "clear")
                      => ~r.calls[r.log[j].id].fetched
            /\ e.ev = "fail" =>
                  /\ e.publicKeyPEM = CacheBefore(r, k)
                  /\ r.calls[e.id].state = "threw"
                  /\ (\A c \in 1..k : r.log[c].ev # "ok") =>
                        /\ e.publicKeyPEM = Null
                        /\ \A j \in (k + 1)..Len(r.log) :
                              (r.log[j].ev = "call"
                                 /\ \A c \in (k + 1)..j : r.log[c].ev # "ok")
                              => r.calls[r.log[j].id].fetched

\* A call of getPublicKey resolved to no key without throwing.
ResolvedKeyless ==
    \E p \in Procs :
        \E id \in 1..Len(w[p].calls) :
            w[p].calls[id].state = "returned" /\ w[p].calls[id].value \in Falsy

====
